---- MODULE Spec2Model ----
(***************************************************************************)
(* A model of the code generator of simple_vm's C compiler                 *)
(* (src/operating_system/compiler/mod.rs): the struct, scope and function  *)
(* tables, and the recursive emitter, unrolled into one step per external  *)
(* and per statement with an explicit stack of pending work.               *)
(***************************************************************************)
EXTENDS Integers, Sequences, FiniteSets, TLC

VARIABLES
    prog,               \* the parsed program handed to _compile
    status,             \* "start" | "running" | "done" | "panic"
    work,               \* pending recursion of code_gen, innermost first
    code,               \* Vec<String> code, one record per line
    scope_to_data,      \* Compiler.scope_to_data
    func_to_data,       \* Compiler.func_to_data
    struct_to_data,     \* Compiler.struct_to_data
    data_val_to_label,  \* Compiler.data_val_to_label
    cur_tmp_label,      \* Compiler.cur_tmp_label
    last                \* the statement emitted by the last step and where its code starts

vars == <<prog, status, work, code, scope_to_data, func_to_data, struct_to_data,
          data_val_to_label, cur_tmp_label, last>>

-----------------------------------------------------------------------------
(* Bounds of the model.                                                    *)

\* array dimensions are drawn from 1..MaxDim
MaxDim == 2
\* functions take 0..MaxArgs arguments
MaxArgs == 2

\* Compiler.program_index of the instance that is modelled
program_index == 0

-----------------------------------------------------------------------------
(* The syntax tree (the AST module's node kinds, as records).              *)

TInt == <<"Int">>
TChar == <<"Char">>
TVoid == <<"Void">>
TString == <<"_String">>
TPtr(t) == <<"Ptr">> \o t
TStruct(n) == <<"Struct", n>>

IsPtr(t) == t[1] = "Ptr"
Pointee(t) == Tail(t)
IsStructT(t) == t[1] = "Struct"

\* a code location "file-line-col", and the scope names built from names
CodeLoc(l, c) == [name |-> "t.c", line |-> l, col |-> c]
ScopeOf(n) == [name |-> n, line |-> 0, col |-> 0]
GLOBAL == ScopeOf("_GLOBAL")

VarDecl(n, t) == [k |-> "VarDecl", name |-> n, type |-> t, dimentions |-> <<>>,
                  hasInit |-> FALSE, init |-> <<>>]
VarDeclInit(n, t, e) == [k |-> "VarDecl", name |-> n, type |-> t, dimentions |-> <<>>,
                         hasInit |-> TRUE, init |-> <<e>>]
ArrayDecl(n, t, dims) == [k |-> "ArrayDecl", name |-> n, type |-> t, dimentions |-> dims,
                          hasInit |-> FALSE, init |-> <<>>]
ArrayDeclInit(n, t, dims, es) == [k |-> "ArrayDecl", name |-> n, type |-> t,
                                  dimentions |-> dims, hasInit |-> TRUE, init |-> es]

Compound(loc, items) == [code_loc |-> loc, items |-> items]

SDecl(d) == [k |-> "Decl", decl |-> d]
SReturn(e) == [k |-> "Return", expr |-> e]
SAssign(l, o, r) == [k |-> "Assignment", ass |-> [lvalue |-> l, op |-> o, rvalue |-> r]]
SExpr(e) == [k |-> "Expression", exp |-> e]
SIf(c, t, f) == [k |-> "If", cond |-> c, iftrue |-> t, iffalse |-> f]
SCompound(c) == [k |-> "Compound", comp |-> c]
SWhile(c, b) == [k |-> "WhileLoop", cond |-> c, body |-> b, code_loc |-> b.code_loc]
SDoWhile(c, b) == [k |-> "DoWhileLoop", cond |-> c, body |-> b, code_loc |-> b.code_loc]
SFor(i, c, n, b) == [k |-> "ForLoop", init |-> i, cond |-> c, next |-> n, body |-> b,
                     code_loc |-> b.code_loc]
SBreak == [k |-> "Break"]
SContinue == [k |-> "Continue"]

EInt(v) == [k |-> "Constant", type |-> TInt, val |-> v, text |-> ""]
EChar(cs) == [k |-> "Constant", type |-> TChar, val |-> 0, text |-> "", chars |-> cs]
EStr(s) == [k |-> "Constant", type |-> TString, val |-> 0, text |-> s]
EBin(o, l, r) == [k |-> "BinaryOp", op_type |-> o, left |-> l, right |-> r]
EUn(o, e, id) == [k |-> "UnaryOp", op_type |-> o, expr |-> e, id |-> id]
EAssign(l, o, r) == [k |-> "Assignment", ass |-> [lvalue |-> l, op |-> o, rvalue |-> r]]
ETernary(c, t, f) == [k |-> "TernaryOp", cond |-> c, iftrue |-> t, iffalse |-> f]
ECall(n, as) == [k |-> "FuncCall", name |-> n, args |-> as]
EName(nr) == [k |-> "NameRef", name |-> nr]
ETypeName(t) == [k |-> "TypeName", type |-> t]
ECast(e) == [k |-> "Cast", expr |-> e]

ID(n) == [k |-> "ID", name |-> n]
ArrayRef(nr, is) == [k |-> "ArrayRef", name |-> nr, indices |-> is]
StructRef(nr, t, f) == [k |-> "StructRef", name |-> nr, type |-> t, field |-> f]
EVar(n) == EName(ID(n))

XStructDecl(n, items) == [k |-> "StructDecl", name |-> n, items |-> items]
XFuncDecl(n, as, rt) == [k |-> "FuncDecl", decl |-> [name |-> n, args |-> as, ret_type |-> rt]]
XFuncDef(n, as, rt, items) == [k |-> "FuncDef",
                               decl |-> [name |-> n, args |-> as, ret_type |-> rt],
                               body |-> Compound(ScopeOf(n), items)]
XVarDecl(d) == [k |-> "VarDecl", decl |-> d]

-----------------------------------------------------------------------------
(* Maps (HashMap insert / extend).                                         *)

Put(m, key, v) == [x \in DOMAIN m \cup {key} |-> IF x = key THEN v ELSE m[x]]
Extend(m, n) == [x \in DOMAIN m \cup DOMAIN n |-> IF x \in DOMAIN n THEN n[x] ELSE m[x]]
EmptyMap == [x \in {} |-> 0]

RECURSIVE Product(_)
Product(s) == IF s = <<>> THEN 1 ELSE Head(s) * Product(Tail(s))

-----------------------------------------------------------------------------
(* Type & size model.  A size of -1 stands for the panic "invalid type".   *)

VariableType_from(decl) ==
    IF decl.k = "VarDecl"
    THEN [kind |-> "Regular", type |-> decl.type, dimentions |-> <<>>]
    ELSE [kind |-> "Array", type |-> decl.type, dimentions |-> decl.dimentions]

get_type_size(_type) ==
    IF IsStructT(_type) /\ _type[2] \in DOMAIN struct_to_data
    THEN struct_to_data[_type[2]].size
    ELSE CASE _type = TInt -> 1
           [] _type = TChar -> 1
           [] IsPtr(_type) -> 1
           [] _type = TVoid -> 0
           [] OTHER -> -1

get_array_size(item_type, dimentions) ==
    IF get_type_size(item_type) < 0 THEN -1
    ELSE Product(dimentions) * get_type_size(item_type)

get_decl_size(decl) ==
    IF decl.k = "VarDecl" THEN get_type_size(decl.type)
    ELSE get_array_size(decl.type, decl.dimentions)

\* a variant that records the cursor itself, the first word of the slot
variable_data_at_cursor(decl, local_or_arg, offset) ==
    [name |-> decl.name, local_or_arg |-> local_or_arg, var_type |-> VariableType_from(decl),
     offset |-> offset, size |-> get_decl_size(decl)]

\* offset: *offset + size - 1, the last word of the slot that starts at the cursor
variable_data_from_decl(decl, local_or_arg, offset) ==
    LET size == get_decl_size(decl) IN
    [name |-> decl.name, local_or_arg |-> local_or_arg, var_type |-> VariableType_from(decl),
     offset |-> offset + size - 1, size |-> size]

-----------------------------------------------------------------------------
(* Struct table.                                                           *)

\* a variant that numbers the fields instead of summing their sizes
RECURSIVE StructItemsNumbered(_, _, _)
StructItemsNumbered(items, i, S) ==
    IF i > Len(items) \/ ~S.ok THEN S
    ELSE IF get_decl_size(items[i].decl) < 0 THEN [S EXCEPT !.ok = FALSE]
         ELSE StructItemsNumbered(items, i + 1,
                [ok |-> TRUE, cur_offset |-> S.cur_offset + get_decl_size(items[i].decl),
                 order |-> IF items[i].name \in DOMAIN S.items THEN S.order
                           ELSE Append(S.order, items[i].name),
                 items |-> Put(S.items, items[i].name,
                               [name |-> items[i].name, local_or_arg |-> "Local",
                                var_type |-> VariableType_from(items[i].decl),
                                offset |-> i - 1,
                                size |-> get_decl_size(items[i].decl)])])

\* the loop of register_struct: one field per turn, offsets by running sum
RECURSIVE StructItems(_, _, _)
StructItems(items, i, S) ==
    IF i > Len(items) \/ ~S.ok THEN S
    ELSE LET name == items[i].name
             decl == items[i].decl
             size == get_decl_size(decl)
             var_data == [name |-> name, local_or_arg |-> "Local",
                          var_type |-> VariableType_from(decl),
                          offset |-> S.cur_offset, size |-> size]
         IN IF size < 0 THEN [S EXCEPT !.ok = FALSE]
            ELSE StructItems(items, i + 1,
                    [ok |-> TRUE, cur_offset |-> S.cur_offset + size,
                     order |-> IF name \in DOMAIN S.items THEN S.order
                               ELSE Append(S.order, name),
                     items |-> Put(S.items, name, var_data)])

\* the StructData that register_struct inserts; ok = FALSE is a panic
register_struct(struct_decl) ==
    LET S == StructItems(struct_decl.items, 1,
                [ok |-> TRUE, cur_offset |-> 0, order |-> <<>>, items |-> EmptyMap])
    IN [ok |-> S.ok,
        data |-> [name |-> struct_decl.name, size |-> S.cur_offset,
                  order |-> S.order, items |-> S.items]]

-----------------------------------------------------------------------------
(* Scope table.                                                            *)

ScopeData(name, parent_scope, parent_func, variables, declared) ==
    [name |-> name, parent_scope |-> parent_scope, parent_func |-> parent_func,
     variables |-> variables, declared_variables |-> declared,
     break_label |-> <<>>, continue_label |-> <<>>]

\* the declarations of a for-loop's initializer (register_scope, ForLoop arm)
RECURSIVE ForInitVars(_, _, _)
ForInitVars(items, i, S) ==
    IF i > Len(items) \/ ~S.ok THEN S
    ELSE IF items[i].k = "Decl"
         THEN LET var_data == variable_data_from_decl(items[i].decl, "Local", S.off)
              IN IF var_data.size < 0 THEN [S EXCEPT !.ok = FALSE]
                 ELSE ForInitVars(items, i + 1,
                        [S EXCEPT !.off = S.off + var_data.size,
                                  !.variables = Put(S.variables, var_data.name, var_data)])
         ELSE ForInitVars(items, i + 1, S)

RECURSIVE register_scope(_, _, _, _, _, _)
RECURSIVE ScopeStatements(_, _, _, _, _)
RECURSIVE NestedScopes(_, _, _, _, _)

\* a variant that does not recurse into the else block of an if
StatementBlocksWithoutElse(statement) ==
    CASE statement.k = "Compound" ->
            <<[code_loc |-> statement.comp.code_loc, items |-> statement.comp.items]>>
      [] statement.k = "If" ->
            <<[code_loc |-> statement.iftrue.code_loc, items |-> statement.iftrue.items]>>
      [] statement.k \in {"WhileLoop", "DoWhileLoop", "ForLoop"} ->
            <<[code_loc |-> statement.code_loc, items |-> statement.body.items]>>
      [] OTHER -> <<>>

\* the blocks that register_scope recurses into for a statement, in order
StatementBlocks(statement) ==
    CASE statement.k = "Compound" ->
            <<[code_loc |-> statement.comp.code_loc, items |-> statement.comp.items]>>
      [] statement.k = "If" ->
            <<[code_loc |-> statement.iftrue.code_loc, items |-> statement.iftrue.items]>>
            \o (IF statement.iffalse = <<>> THEN <<>>
                ELSE <<[code_loc |-> statement.iffalse[1].code_loc,
                        items |-> statement.iffalse[1].items]>>)
      [] statement.k \in {"WhileLoop", "DoWhileLoop", "ForLoop"} ->
            <<[code_loc |-> statement.code_loc, items |-> statement.body.items]>>
      [] OTHER -> <<>>

\* a variant in which the nested block works on a copy of the cursor
AfterNestedCopy(S, r) == [S EXCEPT !.ok = r.ok, !.scopes = r.scopes]

\* S after a recursive call of register_scope returned r: the table and the
\* cursor are shared by reference
AfterNested(S, r) == [S EXCEPT !.ok = r.ok, !.scopes = r.scopes, !.off = r.off]

\* the recursive calls of register_scope for the blocks nested in scope_name;
\* S = [ok, scopes, off, variables]
NestedScopes(S, blocks, i, scope_name, parent_func_name) ==
    IF i > Len(blocks) \/ ~S.ok THEN S
    ELSE NestedScopes(AfterNested(S, register_scope(S.scopes, blocks[i].code_loc,
                                                    blocks[i].items, scope_name,
                                                    parent_func_name, S.off)),
                      blocks, i + 1, scope_name, parent_func_name)

\* a variant in which an entry of the body is kept over the initializer's
ExtendForInitBodyKept(T, statement, I) ==
    IF ~T.ok \/ statement.k # "ForLoop" THEN T
    ELSE [T EXCEPT !.scopes[statement.code_loc].variables = Extend(I.variables, @)]

\* the for-loop arm after its body is registered: the initializer's variables
\* are added to the body's scope
ExtendForInit(T, statement, I) ==
    IF ~T.ok \/ statement.k # "ForLoop" THEN T
    ELSE [T EXCEPT !.scopes[statement.code_loc].variables = Extend(@, I.variables)]

\* one turn of register_scope's loop over the statements of a block
ScopeStatement(S, statement, scope_name, parent_func_name) ==
    IF statement.k = "Decl"
    THEN LET var_data == variable_data_from_decl(statement.decl, "Local", S.off)
         IN IF var_data.size < 0 THEN [S EXCEPT !.ok = FALSE]
            ELSE [S EXCEPT !.off = S.off + var_data.size,
                           !.variables = Put(S.variables, var_data.name, var_data)]
    ELSE LET I == ForInitVars(IF statement.k = "ForLoop" /\ statement.init # <<>>
                              THEN statement.init[1].items ELSE <<>>, 1,
                              [ok |-> TRUE, off |-> S.off, variables |-> EmptyMap])
         IN ExtendForInit(NestedScopes([S EXCEPT !.ok = I.ok, !.off = I.off],
                                       StatementBlocks(statement), 1,
                                       scope_name, parent_func_name),
                          statement, I)

ScopeStatements(S, statements, i, scope_name, parent_func_name) ==
    IF i > Len(statements) \/ ~S.ok THEN S
    ELSE ScopeStatements(ScopeStatement(S, statements[i], scope_name, parent_func_name),
                         statements, i + 1, scope_name, parent_func_name)

\* the end of register_scope: the scope's own entry is inserted after the
\* entries of the blocks nested in it
InsertScope(S, scope_name, parent_scope_name, parent_func_name) ==
    [ok |-> S.ok, off |-> S.off,
     scopes |-> IF ~S.ok THEN S.scopes
                ELSE Put(S.scopes, scope_name,
                         ScopeData(scope_name, parent_scope_name, parent_func_name,
                                   S.variables, {}))]

\* returns [ok, scopes, off]: the scope table with scope_name and every block
\* nested in it inserted, and the advanced cursor
register_scope(scopes, scope_name, statements, parent_scope_name, parent_func_name, current_var_offset) ==
    InsertScope(ScopeStatements([ok |-> TRUE, scopes |-> scopes,
                                 off |-> current_var_offset, variables |-> EmptyMap],
                                statements, 1, scope_name, parent_func_name),
                scope_name, parent_scope_name, parent_func_name)

\* a variant that prefers the outermost declaration
RECURSIVE find_variable_outermost(_, _, _)
find_variable_outermost(scopes, var_name, scope) ==
    IF scope \notin DOMAIN scopes THEN [panic |-> TRUE, some |-> <<>>]
    ELSE LET scope_data == scopes[scope]
             here == IF var_name \in DOMAIN scope_data.variables
                        /\ var_name \in scope_data.declared_variables
                     THEN <<scope_data.variables[var_name]>> ELSE <<>>
         IN IF scope = GLOBAL THEN [panic |-> FALSE, some |-> here]
            ELSE LET up == find_variable_outermost(scopes, var_name,
                                                   scope_data.parent_scope)
                 IN IF up.panic \/ up.some # <<>> THEN up
                    ELSE [panic |-> FALSE, some |-> here]

\* a variant that aborts when the walk ends at the root without a match
RECURSIVE find_variable_or_abort(_, _, _)
find_variable_or_abort(scopes, var_name, scope) ==
    IF scope \notin DOMAIN scopes THEN [panic |-> TRUE, some |-> <<>>]
    ELSE IF var_name \in DOMAIN scopes[scope].variables
            /\ var_name \in scopes[scope].declared_variables
         THEN [panic |-> FALSE, some |-> <<scopes[scope].variables[var_name]>>]
         ELSE IF scope = GLOBAL THEN [panic |-> TRUE, some |-> <<>>]
              ELSE find_variable_or_abort(scopes, var_name, scopes[scope].parent_scope)

\* a variant that leaves the declared set as it is
update_var_declared_skipped(scopes, var_name, scope) ==
    [ok |-> scope \in DOMAIN scopes, scopes |-> scopes]

\* Option<&VariableData> as a sequence of length 0 or 1; panic: a scope on the
\* way does not exist
RECURSIVE find_variable(_, _, _)
find_variable(scopes, var_name, scope) ==
    IF scope \notin DOMAIN scopes THEN [panic |-> TRUE, some |-> <<>>]
    ELSE LET scope_data == scopes[scope] IN
         IF var_name \in DOMAIN scope_data.variables
            /\ var_name \in scope_data.declared_variables
         THEN [panic |-> FALSE, some |-> <<scope_data.variables[var_name]>>]
         ELSE IF scope = GLOBAL THEN [panic |-> FALSE, some |-> <<>>]
              ELSE find_variable(scopes, var_name, scope_data.parent_scope)

\* panics (ok = FALSE) when the scope does not exist
update_var_declared(scopes, var_name, scope) ==
    IF scope \notin DOMAIN scopes THEN [ok |-> FALSE, scopes |-> scopes]
    ELSE [ok |-> TRUE,
          scopes |-> [scopes EXCEPT ![scope].declared_variables = @ \cup {var_name}]]

\* a variant that looks at the given scope only
find_break_continue_labels_local(scopes, scope) ==
    IF scope \notin DOMAIN scopes \/ scopes[scope].break_label = <<>>
          \/ scopes[scope].continue_label = <<>>
    THEN [panic |-> TRUE, some |-> <<>>]
    ELSE [panic |-> FALSE,
          some |-> <<[break_label |-> scopes[scope].break_label[1],
                      continue_label |-> scopes[scope].continue_label[1]]>>]

RECURSIVE find_break_continue_labels(_, _)
find_break_continue_labels(scopes, scope) ==
    IF scope \notin DOMAIN scopes THEN [panic |-> TRUE, some |-> <<>>]
    ELSE LET scope_data == scopes[scope] IN
         IF scope_data.break_label # <<>>
         THEN IF scope_data.continue_label = <<>> THEN [panic |-> TRUE, some |-> <<>>]
              ELSE [panic |-> FALSE,
                    some |-> <<[break_label |-> scope_data.break_label[1],
                                continue_label |-> scope_data.continue_label[1]]>>]
         ELSE IF scope = GLOBAL THEN [panic |-> FALSE, some |-> <<>>]
              ELSE find_break_continue_labels(scopes, scope_data.parent_scope)

\* a variant that stores the two labels the other way round
update_scope_labels_swapped(scopes, scope, break_label, continue_label) ==
    IF scope \notin DOMAIN scopes THEN [ok |-> FALSE, scopes |-> scopes]
    ELSE [ok |-> TRUE,
          scopes |-> [scopes EXCEPT ![scope].break_label = <<continue_label>>,
                                    ![scope].continue_label = <<break_label>>]]

update_scope_break_continue_labels(scopes, scope, break_label, continue_label) ==
    IF scope \notin DOMAIN scopes THEN [ok |-> FALSE, scopes |-> scopes]
    ELSE [ok |-> TRUE,
          scopes |-> [scopes EXCEPT ![scope].break_label = <<break_label>>,
                                    ![scope].continue_label = <<continue_label>>]]

-----------------------------------------------------------------------------
(* Function table.                                                         *)

RECURSIVE ArgsTypes(_)
ArgsTypes(args) ==
    IF args = <<>> THEN <<>>
    ELSE <<VariableType_from(Head(args))>> \o ArgsTypes(Tail(args))

\* a variant that keeps the FuncData of a name that is already registered
register_func_decl_once(funcs, func_decl) ==
    IF func_decl.name \in DOMAIN funcs THEN funcs
    ELSE Put(funcs, func_decl.name,
             [decl_data |-> [args_types |-> ArgsTypes(func_decl.args),
                             return_type |-> func_decl.ret_type],
              body_data |-> <<>>])

\* inserts (and replaces) the FuncData of the name, with no body
register_func_decl(funcs, func_decl) ==
    Put(funcs, func_decl.name,
        [decl_data |-> [args_types |-> ArgsTypes(func_decl.args),
                        return_type |-> func_decl.ret_type],
         body_data |-> <<>>])

\* a variant whose argument cursor does not advance
RECURSIVE ArgsVariablesAtZero(_, _, _)
ArgsVariablesAtZero(args, i, S) ==
    IF i > Len(args) \/ ~S.ok THEN S
    ELSE LET var_data == variable_data_from_decl(args[i], "Arg", S.off)
         IN IF var_data.size < 0 THEN [S EXCEPT !.ok = FALSE]
            ELSE ArgsVariablesAtZero(args, i + 1,
                    [S EXCEPT !.variables = Put(S.variables, var_data.name, var_data)])

\* the loop of register_func_body over the arguments, cursor from 0
RECURSIVE ArgsVariables(_, _, _)
ArgsVariables(args, i, S) ==
    IF i > Len(args) \/ ~S.ok THEN S
    ELSE LET var_data == variable_data_from_decl(args[i], "Arg", S.off)
         IN IF var_data.size < 0 THEN [S EXCEPT !.ok = FALSE]
            ELSE ArgsVariables(args, i + 1,
                    [S EXCEPT !.off = S.off + var_data.size,
                              !.variables = Put(S.variables, var_data.name, var_data)])

regs_used == <<"R1", "R2">>

\* the end of register_func_body; R = the registered body scope, A = the
\* arguments' variables
FuncBodyData(scopes, funcs, func_name, R, A) ==
    IF ~R.ok \/ ~A.ok \/ func_name \notin DOMAIN funcs
    THEN [ok |-> FALSE, scopes |-> scopes, funcs |-> funcs]
    ELSE [ok |-> TRUE,
          scopes |-> [R.scopes EXCEPT
                        ![ScopeOf(func_name)].declared_variables = @ \cup DOMAIN A.variables,
                        ![ScopeOf(func_name)].variables = Extend(@, A.variables)],
          funcs |-> [funcs EXCEPT ![func_name].body_data =
                        <<[name |-> func_name, regs_used |-> regs_used,
                           local_vars_size |-> R.off]>>]]

\* returns [ok, scopes, funcs]
register_func_body(scopes, funcs, func_body, func_decl, parent_scope) ==
    FuncBodyData(scopes, funcs, func_decl.name,
                 register_scope(scopes, ScopeOf(func_decl.name), func_body.items,
                                parent_scope, func_decl.name, 0),
                 ArgsVariables(func_decl.args, 1,
                               [ok |-> TRUE, off |-> 0, variables |-> EmptyMap]))

-----------------------------------------------------------------------------
(* Code lines.  A line is a record: the mnemonic, its register operands     *)
(* with "#" in the place of an immediate (held in n) and "@" in the place   *)
(* of a label (held in lbl).                                               *)

NoLabel == [pre |-> "", idx |-> -1, n |-> -1, suf |-> "", name |-> ""]
\* format!("{}_{}", program_index, cur_tmp_label) between a prefix and a suffix
get_tmp_label(pre, n, suf) ==
    [pre |-> pre, idx |-> program_index, n |-> n, suf |-> suf, name |-> ""]
get_global_label == [pre |-> "GLOBAL", idx |-> program_index, n |-> -1, suf |-> "", name |-> ""]
FuncLabel(f) == [pre |-> "", idx |-> -1, n |-> -1, suf |-> "", name |-> f]
FuncEndLabel(f) == [pre |-> "_", idx |-> -1, n |-> -1, suf |-> "_END", name |-> f]

IR(op, regs) == [op |-> op, args |-> regs, n |-> 0, lbl |-> NoLabel]
II(op, regs, n) == [op |-> op, args |-> regs \o <<"#">>, n |-> n, lbl |-> NoLabel]
IL(op, regs, lbl) == [op |-> op, args |-> regs \o <<"@">>, n |-> 0, lbl |-> lbl]
ILabel(lbl) == [op |-> "LABEL", args |-> <<"@">>, n |-> 0, lbl |-> lbl]
IBlock(lbl, n) == [op |-> ".block", args |-> <<"@", "#">>, n |-> n, lbl |-> lbl]
IStringz(lbl, s) == [op |-> ".stringz", args |-> <<"@", s>>, n |-> 0, lbl |-> lbl]

\* the compiler's mutable fields and the code vector, threaded through the
\* emitter; ok = FALSE after a panic
Fail(G) == [G EXCEPT !.ok = FALSE]
Push(G, ins) == IF G.ok THEN [G EXCEPT !.code = Append(@, ins)] ELSE G
PushAll(G, lines) == IF G.ok THEN [G EXCEPT !.code = @ \o lines] ELSE G
\* a variant that leaves the counter as it is
inc_tmp_label_skipped(G) == G
inc_tmp_label(G) == [G EXCEPT !.lbl = @ + 1]

Repeat(x, n) == [j \in 1..n |-> x]

\* a variant that never looks the content up
maybe_add_string_data_uncached(G, s) ==
    LET label == get_tmp_label("STR", G.lbl, "")
    IN [Push(inc_tmp_label(G), IStringz(label, s)) EXCEPT !.strs = Put(G.strs, s, label)]

maybe_add_string_data(G, s) ==
    IF s \in DOMAIN G.strs THEN G
    ELSE LET label == get_tmp_label("STR", G.lbl, "")
         IN [Push(inc_tmp_label(G), IStringz(label, s)) EXCEPT
                !.strs = Put(G.strs, s, label)]

\* BinaryopType::to_op of the AST module: the one-instruction operators
to_op(op_type) ==
    CASE op_type = "ADD" -> <<"ADD">>
      [] op_type = "SUB" -> <<"SUB">>
      [] op_type = "MUL" -> <<"MUL">>
      [] op_type = "BitAnd" -> <<"AND">>
      [] op_type = "BitOr" -> <<"OR">>
      [] OTHER -> <<>>

\* the character codes the model's literals use
AsciiOf(c) ==
    CASE c = "a" -> 97 [] c = "b" -> 98 [] c = "0" -> 48 [] c = "n" -> 110
      [] c = "t" -> 116 [] c = "\\" -> 92 [] OTHER -> 63

\* returns [ok, vt]: the VariableType of a name, no code emitted
RECURSIVE get_type_of_name(_, _, _)
get_type_of_name(scopes, node, scope) ==
    CASE node.k = "ID" ->
            LET v == find_variable(scopes, node.name, scope)
            IN IF v.panic \/ v.some = <<>> THEN [ok |-> FALSE, vt |-> <<>>]
               ELSE [ok |-> TRUE, vt |-> v.some[1].var_type]
      [] node.k = "ArrayRef" -> get_type_of_name(scopes, node.name, scope)
      [] node.k = "StructRef" ->
            LET r == get_type_of_name(scopes, node.name, scope) IN
            IF ~r.ok THEN r
            ELSE LET t == r.vt.type
                     struct_type == IF IsPtr(t) /\ node.type = "ARROW" THEN Pointee(t) ELSE t
                 IN IF IsStructT(struct_type)
                       /\ struct_type[2] \in DOMAIN struct_to_data
                       /\ node.field \in DOMAIN struct_to_data[struct_type[2]].items
                    THEN [ok |-> TRUE,
                          vt |-> struct_to_data[struct_type[2]].items[node.field].var_type]
                    ELSE [ok |-> FALSE, vt |-> <<>>]

\* a variant that leaves the saved registers out of a local's distance to BP
codegen_load_addr_of_var_below_bp(G, var_name, scope) ==
    IF ~G.ok THEN G ELSE
    LET v == find_variable(G.scopes, var_name, scope) IN
    IF v.panic \/ v.some = <<>> \/ scope \notin DOMAIN G.scopes THEN Fail(G)
    ELSE LET var_data == v.some[1]
             parent_func == G.scopes[scope].parent_func
         IN IF parent_func \notin DOMAIN func_to_data THEN Fail(G)
            ELSE LET func_data == func_to_data[parent_func] IN
                 IF func_data.body_data = <<>> THEN Fail(G)
                 ELSE CASE var_data.local_or_arg = "Local" ->
                             Push(G, II("ADD", <<"R1", "BP">>, -(1 + var_data.offset)))
                        [] var_data.local_or_arg = "Arg" ->
                             LET func_retval_size ==
                                     get_type_size(func_data.decl_data.return_type)
                             IN IF func_retval_size < 0 THEN Fail(G)
                                ELSE Push(G, II("ADD", <<"R1", "BP">>,
                                                2 + func_retval_size + var_data.offset))
                        [] OTHER ->
                             PushAll(G, <<IL("LEA", <<"R1">>, get_global_label),
                                          II("ADD", <<"R1", "R1">>, var_data.offset)>>)

\* pushes the address computation of a variable; panics when the variable,
\* the scope, the scope's function or the function's body is missing
codegen_load_addr_of_var(G, var_name, scope) ==
    IF ~G.ok THEN G ELSE
    LET v == find_variable(G.scopes, var_name, scope) IN
    IF v.panic \/ v.some = <<>> \/ scope \notin DOMAIN G.scopes THEN Fail(G)
    ELSE LET var_data == v.some[1]
             parent_func == G.scopes[scope].parent_func
         IN IF parent_func \notin DOMAIN func_to_data THEN Fail(G)
            ELSE LET func_data == func_to_data[parent_func] IN
                 IF func_data.body_data = <<>> THEN Fail(G)
                 ELSE CASE var_data.local_or_arg = "Local" ->
                             Push(G, II("ADD", <<"R1", "BP">>,
                                        -(1 + Len(func_data.body_data[1].regs_used)
                                            + var_data.offset)))
                        [] var_data.local_or_arg = "Arg" ->
                             LET func_retval_size ==
                                     get_type_size(func_data.decl_data.return_type)
                             IN IF func_retval_size < 0 THEN Fail(G)
                                ELSE Push(G, II("ADD", <<"R1", "BP">>,
                                                2 + func_retval_size + var_data.offset))
                        [] OTHER ->
                             PushAll(G, <<IL("LEA", <<"R1">>, get_global_label),
                                          II("ADD", <<"R1", "R1">>, var_data.offset)>>)

(* right_gen, left_gen and their helpers call one another recursively.    *)
(* Here the recursion is an explicit list of pending tasks, in emission    *)
(* order: a task generates an expression in value mode ("right"), in       *)
(* address mode ("left"), a name's address ("name"), an assignment         *)
(* ("assign"), or pushes lines that the caller emits between two calls.    *)

TRight(node, scope) == [t |-> "right", node |-> node, scope |-> scope, lines |-> <<>>]
TLeft(node, scope) == [t |-> "left", node |-> node, scope |-> scope, lines |-> <<>>]
TName(node, scope) == [t |-> "name", node |-> node, scope |-> scope, lines |-> <<>>]
TAssign(ass, scope) == [t |-> "assign", node |-> ass, scope |-> scope, lines |-> <<>>]
TLines(lines) == [t |-> "lines", node |-> [k |-> "none"], scope |-> GLOBAL, lines |-> lines]

Then(G, tasks) == [G |-> G, tasks |-> tasks]

\* the instruction pairs of the relational and logical operators
\* a variant that tests less-than and greater-than with R1 first
BooleanOpOperandsSwapped(op_type) ==
    CASE op_type = "EQ" -> <<IR("TSTE", <<"R1", "R2">>), IR("MOV", <<"R1", "ZR">>)>>
      [] op_type = "NEQ" -> <<IR("TSTN", <<"R1", "R2">>), IR("MOV", <<"R1", "ZR">>)>>
      [] op_type = "LogicalAnd" ->
            <<II("TSTN", <<"R1">>, 0), IR("MOV", <<"R1", "ZR">>),
              II("TSTN", <<"R2">>, 0), IR("AND", <<"R1", "R1", "ZR">>)>>
      [] op_type = "LogicalOr" ->
            <<II("TSTN", <<"R1">>, 0), IR("MOV", <<"R1", "ZR">>),
              II("TSTN", <<"R2">>, 0), IR("OR", <<"R1", "R1", "ZR">>)>>
      [] op_type = "LT" -> <<IR("TSTL", <<"R1", "R2">>), IR("MOV", <<"R1", "ZR">>)>>
      [] op_type = "LTEQ" ->
            <<IR("TSTG", <<"R1", "R2">>), II("TSTN", <<"ZR">>, 1), IR("MOV", <<"R1", "ZR">>)>>
      [] op_type = "GT" -> <<IR("TSTG", <<"R1", "R2">>), IR("MOV", <<"R1", "ZR">>)>>
      [] op_type = "GTEQ" ->
            <<IR("TSTL", <<"R1", "R2">>), II("TSTN", <<"ZR">>, 1), IR("MOV", <<"R1", "ZR">>)>>
      [] OTHER -> <<>>

BooleanOp(op_type) ==
    CASE op_type = "EQ" -> <<IR("TSTE", <<"R1", "R2">>), IR("MOV", <<"R1", "ZR">>)>>
      [] op_type = "NEQ" -> <<IR("TSTN", <<"R1", "R2">>), IR("MOV", <<"R1", "ZR">>)>>
      [] op_type = "LogicalAnd" ->
            <<II("TSTN", <<"R1">>, 0), IR("MOV", <<"R1", "ZR">>),
              II("TSTN", <<"R2">>, 0), IR("AND", <<"R1", "R1", "ZR">>)>>
      [] op_type = "LogicalOr" ->
            <<II("TSTN", <<"R1">>, 0), IR("MOV", <<"R1", "ZR">>),
              II("TSTN", <<"R2">>, 0), IR("OR", <<"R1", "R1", "ZR">>)>>
      [] op_type = "LT" -> <<IR("TSTL", <<"R2", "R1">>), IR("MOV", <<"R1", "ZR">>)>>
      [] op_type = "LTEQ" ->
            <<IR("TSTG", <<"R2", "R1">>), II("TSTN", <<"ZR">>, 1), IR("MOV", <<"R1", "ZR">>)>>
      [] op_type = "GT" -> <<IR("TSTG", <<"R2", "R1">>), IR("MOV", <<"R1", "ZR">>)>>
      [] op_type = "GTEQ" ->
            <<IR("TSTL", <<"R2", "R1">>), II("TSTN", <<"ZR">>, 1), IR("MOV", <<"R1", "ZR">>)>>
      [] OTHER -> <<>>

\* right_gen, Expression::Constant
ConstantGen(G, c) ==
    CASE c.type = TInt -> Push(G, II("MOV", <<"R1">>, c.val))
      [] c.type = TChar ->
            IF Len(c.chars) = 1 THEN Push(G, II("MOV", <<"R1">>, AsciiOf(c.chars[1])))
            ELSE IF Len(c.chars) = 2 /\ c.chars[1] = "\\" /\ c.chars[2] = "n"
                 THEN Push(G, II("MOV", <<"R1">>, 10))
            ELSE IF Len(c.chars) = 2 /\ c.chars[1] = "\\" /\ c.chars[2] = "t"
                 THEN Push(G, II("MOV", <<"R1">>, 9))
            ELSE Fail(G)
      [] c.type = TString ->
            IF c.text = "" THEN Fail(G)
            ELSE LET H == maybe_add_string_data(G, c.text)
                 IN Push(H, IL("LEA", <<"R1">>, H.strs[c.text]))
      [] OTHER -> Fail(G)

\* a variant that steps every variable by one word
IncDecDeltaOne(var) == 1

\* the step of ++/--: the pointee's size for a pointer variable, else 1;
\* -1 when get_type_size panics
IncDecDelta(var) ==
    IF var.var_type.kind = "Regular" /\ IsPtr(var.var_type.type)
    THEN get_type_size(Pointee(var.var_type.type))
    ELSE 1

\* the lines of ++x and --x (PPX, MMX), and of x++ and x-- (XPP, XMM), that
\* follow the operand's address
IncDecLines(op_type, delta) ==
    IF op_type \in {"PPX", "MMX"}
    THEN <<IR("LOAD", <<"R2", "R1">>),
           II(IF op_type = "PPX" THEN "ADD" ELSE "SUB", <<"R2", "R2">>, delta),
           IR("STR", <<"R1", "R2">>),
           IR("MOV", <<"R1", "R2">>)>>
    ELSE <<IR("LOAD", <<"R2", "R1">>),
           IR("PUSH", <<"R2">>),
           II(IF op_type = "XPP" THEN "ADD" ELSE "SUB", <<"R2", "R2">>, delta),
           IR("STR", <<"R1", "R2">>),
           IR("POP", <<"R1">>)>>

\* right_gen, UnaryopType::PPX | MMX | XPP | XMM
IncDecGen(G, op, scope) ==
    IF op.id = <<>> THEN Then(Fail(G), <<>>)
    ELSE LET v == find_variable(G.scopes, op.id[1], scope) IN
         IF v.panic \/ v.some = <<>> THEN Then(Fail(G), <<>>)
         ELSE IF IncDecDelta(v.some[1]) < 0 THEN Then(Fail(G), <<>>)
              ELSE Then(G, <<TLeft(op.expr, scope),
                             TLines(IncDecLines(op.op_type, IncDecDelta(v.some[1])))>>)

\* right_gen, Expression::FuncCall: each argument evaluated and pushed, the
\* last argument first
PushArgs(args, scope) ==
    [j \in 1..(2 * Len(args)) |->
        IF j % 2 = 1 THEN TRight(args[Len(args) - (j - 1) \div 2], scope)
        ELSE TLines(<<IR("PUSH", <<"R1">>)>>)]

\* a variant that pops into R1 after every call
CallEpiloguePopAlways(retsize, nargs) ==
    <<IR("POP", <<"R1">>)>> \o Repeat(IR("POP", <<"ZR">>), nargs)

\* what follows CALL: the return value popped into R1, the arguments dropped
CallEpilogue(retsize, nargs) ==
    (IF retsize > 0 THEN <<IR("POP", <<"R1">>)>> ELSE <<>>)
        \o Repeat(IR("POP", <<"ZR">>), nargs)

FuncCallGen(G, func_call, scope) ==
    IF func_call.name \notin DOMAIN func_to_data THEN Then(Fail(G), <<>>)
    ELSE LET rettype == func_to_data[func_call.name].decl_data.return_type
             retsize == get_type_size(rettype)
         IN IF retsize < 0 THEN Then(Fail(G), <<>>)
            ELSE Then(G, PushArgs(func_call.args, scope)
                         \o <<TLines(Repeat(IR("PUSH", <<"ZR">>), retsize)
                                \o <<IL("CALL", <<>>, FuncLabel(func_call.name))>>
                                \o CallEpilogue(retsize, Len(func_call.args)))>>)

\* right_gen, Expression::NameRef: the load through the address, unless the
\* name is an identifier of an array
NameRefGen(G, name, scope) ==
    IF name.k = "ID"
    THEN LET t == get_type_of_name(G.scopes, name, scope) IN
         IF ~t.ok THEN Then(Fail(G), <<>>)
         ELSE IF t.vt.kind = "Array" THEN Then(G, <<TName(name, scope)>>)
              ELSE Then(G, <<TName(name, scope), TLines(<<IR("LOAD", <<"R1", "R1">>)>>)>>)
    ELSE Then(G, <<TName(name, scope), TLines(<<IR("LOAD", <<"R1", "R1">>)>>)>>)

\* one call of right_gen: the lines it pushes itself and the calls it makes
RightTasks(G, node, scope) ==
    CASE node.k = "Constant" -> Then(ConstantGen(G, node), <<>>)
      [] node.k = "BinaryOp" ->
            IF to_op(node.op_type) = <<>> /\ BooleanOp(node.op_type) = <<>>
            THEN Then(Fail(G), <<>>)
            ELSE Then(G, <<TRight(node.left, scope), TLines(<<IR("PUSH", <<"R1">>)>>),
                           TRight(node.right, scope),
                           TLines(<<IR("POP", <<"R2">>)>>
                                  \o (IF to_op(node.op_type) # <<>>
                                      THEN <<IR(to_op(node.op_type)[1], <<"R1", "R2", "R1">>)>>
                                      ELSE BooleanOp(node.op_type)))>>)
      [] node.k = "UnaryOp" ->
            CASE node.op_type = "NEG" ->
                    Then(G, <<TRight(node.expr, scope), TLines(<<IR("NEG", <<"R1">>)>>)>>)
              [] node.op_type = "NOT" ->
                    Then(G, <<TRight(node.expr, scope),
                              TLines(<<II("TSTE", <<"R1">>, 0), IR("MOV", <<"R1", "ZR">>)>>)>>)
              [] node.op_type \in {"PPX", "MMX", "XPP", "XMM"} -> IncDecGen(G, node, scope)
              [] node.op_type = "REF" -> Then(G, <<TLeft(node.expr, scope)>>)
              [] node.op_type = "DEREF" ->
                    Then(G, <<TRight(node.expr, scope),
                              TLines(<<IR("LOAD", <<"R1", "R1">>)>>)>>)
              [] node.op_type = "SIZEOF" ->
                    IF node.expr.k = "TypeName" /\ get_type_size(node.expr.type) >= 0
                    THEN Then(Push(G, II("MOV", <<"R1">>, get_type_size(node.expr.type))),
                              <<>>)
                    ELSE Then(Fail(G), <<>>)
              [] OTHER -> Then(Fail(G), <<>>)
      [] node.k = "Assignment" -> Then(G, <<TAssign(node.ass, scope)>>)
      [] node.k = "TernaryOp" ->
            LET neg_label == get_tmp_label("TERNARY", G.lbl, "NO")
                ternary_end_label == get_tmp_label("TERNARY", G.lbl, "YES")
            IN Then(inc_tmp_label(G),
                    <<TRight(node.cond, scope),
                      TLines(<<II("TSTN", <<"R1">>, 0), IL("FJMP", <<>>, neg_label)>>),
                      TRight(node.iftrue, scope),
                      TLines(<<IL("JUMP", <<>>, ternary_end_label), ILabel(neg_label)>>),
                      TRight(node.iffalse, scope),
                      TLines(<<ILabel(ternary_end_label)>>)>>)
      [] node.k = "FuncCall" -> FuncCallGen(G, node, scope)
      [] node.k = "NameRef" -> NameRefGen(G, node.name, scope)
      [] node.k = "Cast" -> Then(G, <<TRight(node.expr, scope)>>)
      [] OTHER -> Then(Fail(G), <<>>)

\* one call of left_gen
LeftTasks(G, node, scope) ==
    CASE node.k = "UnaryOp" ->
            IF node.op_type = "DEREF"
            THEN Then(G, <<TLeft(node.expr, scope), TLines(<<IR("LOAD", <<"R1", "R1">>)>>)>>)
            ELSE Then(Fail(G), <<>>)
      [] node.k = "NameRef" -> Then(G, <<TName(node.name, scope)>>)
      [] OTHER -> Then(Fail(G), <<>>)

\* a variant that adds the field's offset to the pointer's own address
StructRefLinesNoLoad(arrow, offset) == <<II("ADD", <<"R1", "R1">>, offset)>>

\* the lines that follow the base's address: one load for "->" on a pointer,
\* then the field's offset added
StructRefLines(arrow, offset) ==
    (IF arrow THEN <<IR("LOAD", <<"R1", "R1">>)>> ELSE <<>>)
        \o <<II("ADD", <<"R1", "R1">>, offset)>>

codegen_load_addr_of_struct_ref(G, struct_ref, scope) ==
    LET r == get_type_of_name(G.scopes, struct_ref.name, scope) IN
    IF ~r.ok THEN Then(Fail(G), <<>>)
    ELSE LET t == r.vt.type
             arrow == struct_ref.type = "ARROW" /\ IsPtr(t)
             struct_type == IF arrow THEN Pointee(t) ELSE t
         IN IF IsStructT(struct_type)
               /\ struct_type[2] \in DOMAIN struct_to_data
               /\ struct_ref.field \in DOMAIN struct_to_data[struct_type[2]].items
            THEN Then(G, <<TName(struct_ref.name, scope),
                           TLines(StructRefLines(arrow,
                              struct_to_data[struct_type[2]].items[struct_ref.field].offset))>>)
            ELSE Then(Fail(G), <<>>)

\* a variant of the loop that never updates the running product
RECURSIVE IndexLoopFlat(_, _, _, _, _, _)
IndexLoopFlat(indices, dimentions, i, cur_dimentions_product, item_size, scope) ==
    IF i = 0 THEN <<>>
    ELSE <<TLines(<<IR("PUSH", <<"R2">>)>>),
           TRight(indices[i], scope),
           TLines(<<IR("POP", <<"R2">>),
                    II("MUL", <<"R1", "R1">>, cur_dimentions_product),
                    II("MUL", <<"R1", "R1">>, item_size),
                    IR("ADD", <<"R2", "R2", "R1">>)>>)>>
         \o IndexLoopFlat(indices, dimentions, i - 1, cur_dimentions_product,
                          item_size, scope)

\* the loop of codegen_load_addr_of_array_indexing, from the last index (i =
\* Len(indices)) to the first: R2, the address so far, is saved across the
\* index expression; cur_dimentions_product is multiplied by the dimension
\* of the index after its use
RECURSIVE IndexLoop(_, _, _, _, _, _)
IndexLoop(indices, dimentions, i, cur_dimentions_product, item_size, scope) ==
    IF i = 0 THEN <<>>
    ELSE <<TLines(<<IR("PUSH", <<"R2">>)>>),
           TRight(indices[i], scope),
           TLines(<<IR("POP", <<"R2">>),
                    II("MUL", <<"R1", "R1">>, cur_dimentions_product),
                    II("MUL", <<"R1", "R1">>, item_size),
                    IR("ADD", <<"R2", "R2", "R1">>)>>)>>
         \o IndexLoop(indices, dimentions, i - 1,
                      cur_dimentions_product * dimentions[i], item_size, scope)

codegen_load_addr_of_array_indexing(G, array_ref, scope) ==
    LET r == get_type_of_name(G.scopes, array_ref.name, scope) IN
    IF ~r.ok \/ r.vt.kind # "Array" THEN Then(Fail(G), <<>>)
    ELSE LET item_size == get_type_size(r.vt.type) IN
         IF item_size < 0 \/ Len(array_ref.indices) # Len(r.vt.dimentions)
         THEN Then(Fail(G), <<>>)
         ELSE Then(G, <<TName(array_ref.name, scope), TLines(<<IR("MOV", <<"R2", "R1">>)>>)>>
                      \o IndexLoop(array_ref.indices, r.vt.dimentions,
                                   Len(array_ref.indices), 1, item_size, scope)
                      \o <<TLines(<<IR("MOV", <<"R1", "R2">>)>>)>>)

\* one call of codegen_name
NameTasks(G, node, scope) ==
    CASE node.k = "ID" -> Then(codegen_load_addr_of_var(G, node.name, scope), <<>>)
      [] node.k = "ArrayRef" -> codegen_load_addr_of_array_indexing(G, node, scope)
      [] node.k = "StructRef" -> codegen_load_addr_of_struct_ref(G, node, scope)
      [] OTHER -> Then(Fail(G), <<>>)

\* the lines of an assignment after both sides: R1 holds the rvalue, the
\* address is popped into R2
StoreLines(op) ==
    IF op = "" THEN <<IR("POP", <<"R2">>), IR("STR", <<"R2", "R1">>)>>
    ELSE <<IR("POP", <<"R2">>), IR("PUSH", <<"R2">>), IR("LOAD", <<"R2", "R2">>),
           IR(to_op(op)[1], <<"R1", "R2", "R1">>),
           IR("POP", <<"R2">>), IR("STR", <<"R2", "R1">>)>>

gen_assignment_code(G, ass, scope) ==
    IF ass.op # "" /\ to_op(ass.op) = <<>> THEN Then(Fail(G), <<>>)
    ELSE Then(G, <<TLeft(ass.lvalue, scope), TLines(<<IR("PUSH", <<"R1">>)>>),
                   TRight(ass.rvalue, scope), TLines(StoreLines(ass.op))>>)

\* runs the pending tasks, first to last; a panic ends the generation
RECURSIVE Gen(_, _)
Gen(tasks, G) ==
    IF tasks = <<>> \/ ~G.ok THEN G
    ELSE LET task == Head(tasks)
             r == CASE task.t = "right" -> RightTasks(G, task.node, task.scope)
                    [] task.t = "left" -> LeftTasks(G, task.node, task.scope)
                    [] task.t = "name" -> NameTasks(G, task.node, task.scope)
                    [] task.t = "assign" -> gen_assignment_code(G, task.node, task.scope)
                    [] OTHER -> Then(PushAll(G, task.lines), <<>>)
         IN Gen(r.tasks \o Tail(tasks), r.G)

right_gen(G, node, scope) == Gen(<<TRight(node, scope)>>, G)
left_gen(G, node, scope) == Gen(<<TLeft(node, scope)>>, G)
codegen_name(G, node, scope) == Gen(<<TName(node, scope)>>, G)

\* the loop of gen_arr_init_code over the initializer's expressions
ArrInitLoop(arr_init, item_size, scope) ==
    [j \in 1..(3 * Len(arr_init)) |->
        CASE j % 3 = 1 -> TLines(<<IR("PUSH", <<"R2">>)>>)
          [] j % 3 = 2 -> TRight(arr_init[(j + 1) \div 3], scope)
          [] OTHER -> TLines(<<IR("POP", <<"R2">>), IR("STR", <<"R2", "R1">>),
                               II("ADD", <<"R2", "R2">>, item_size)>>)]

gen_arr_init_code(G, arr_name, arr_init, scope) ==
    LET v == find_variable(G.scopes, arr_name, scope) IN
    IF v.panic \/ v.some = <<>> THEN Fail(G)
    ELSE IF v.some[1].var_type.kind # "Array"
            \/ get_type_size(v.some[1].var_type.type) < 0 THEN Fail(G)
         ELSE Gen(ArrInitLoop(arr_init, get_type_size(v.some[1].var_type.type), scope),
                  Push(codegen_load_addr_of_var(G, arr_name, scope),
                       IR("MOV", <<"R2", "R1">>)))

-----------------------------------------------------------------------------
(* The emitter as a state machine: code_gen's recursion over externals and  *)
(* statements, one step per node, the pending nodes kept in work.          *)

NoNode == [k |-> "none"]
WExt(e) == [k |-> "ext", node |-> e, scope |-> GLOBAL, code |-> <<>>, n |-> 0]
WStmt(st, scope) == [k |-> "stmt", node |-> st, scope |-> scope, code |-> <<>>, n |-> 0]
WEmit(lines) == [k |-> "emit", node |-> NoNode, scope |-> GLOBAL, code |-> lines, n |-> 0]
WFuncEnd(func_def) == [k |-> "funcend", node |-> func_def, scope |-> GLOBAL,
                       code |-> <<>>, n |-> 0]
WForCond(fl, n) == [k |-> "forcond", node |-> fl, scope |-> fl.code_loc,
                    code |-> <<>>, n |-> n]

RECURSIVE Items(_, _)
\* code_gen(AstNode::Compound): the statements of a block, in order, in a scope
Items(items, scope) ==
    IF items = <<>> THEN <<>>
    ELSE <<WStmt(Head(items), scope)>> \o Items(Tail(items), scope)

RECURSIVE Externals(_)
Externals(exts) ==
    IF exts = <<>> THEN <<>> ELSE <<WExt(Head(exts))>> \o Externals(Tail(exts))

OptItems(opt, scope) == IF opt = <<>> THEN <<>> ELSE Items(opt[1].items, scope)

Self == [ok |-> TRUE, code |-> code, lbl |-> cur_tmp_label, strs |-> data_val_to_label,
         scopes |-> scope_to_data]

Step(kind, node, scope) == [k |-> kind, node |-> node, scope |-> scope, from |-> Len(code) + 1]

\* the step's effect on the compiler, or the abort of the compilation
Commit(G, w, step) ==
    /\ last' = step
    /\ UNCHANGED <<prog, func_to_data, struct_to_data>>
    /\ IF G.ok
       THEN /\ status' = "running"
            /\ code' = G.code
            /\ cur_tmp_label' = G.lbl
            /\ data_val_to_label' = G.strs
            /\ scope_to_data' = G.scopes
            /\ work' = w
       ELSE /\ status' = "panic"
            /\ UNCHANGED <<code, cur_tmp_label, data_val_to_label, scope_to_data, work>>

Running(kind, nodek) ==
    /\ status = "running"
    /\ work # <<>>
    /\ work[1].k = kind
    /\ work[1].node.k = nodek

\* code_gen, RootAstNode: the loop that registers the global variables
RECURSIVE GlobalVars(_, _, _)
GlobalVars(exts, i, S) ==
    IF i > Len(exts) \/ ~S.ok THEN S
    ELSE IF exts[i].k = "VarDecl"
         THEN LET var_data == variable_data_from_decl(exts[i].decl, "Global", S.off)
              IN IF var_data.size < 0 THEN [S EXCEPT !.ok = FALSE]
                 ELSE GlobalVars(exts, i + 1,
                        [S EXCEPT !.off = S.off + var_data.size,
                                  !.variables = Put(S.variables, var_data.name, var_data)])
         ELSE GlobalVars(exts, i + 1, S)

CodeGenRoot ==
    /\ status = "start"
    /\ LET S == GlobalVars(prog, 1, [ok |-> TRUE, off |-> 0, variables |-> EmptyMap])
           G == [Self EXCEPT
                    !.ok = S.ok,
                    !.scopes = Put(scope_to_data, GLOBAL,
                                   ScopeData(GLOBAL, GLOBAL, "_GLOBAL", S.variables,
                                             DOMAIN S.variables)),
                    !.code = code \o <<IBlock(get_global_label, S.off),
                                       IL("JUMP", <<>>, FuncLabel("main"))>>]
       IN Commit(G, Externals(prog), Step("Root", NoNode, GLOBAL))

ExtFuncDecl ==
    /\ Running("ext", "FuncDecl")
    /\ LET func_decl == work[1].node.decl IN
       /\ func_to_data' = IF ScopeOf(func_decl.name) \notin DOMAIN scope_to_data
                          THEN register_func_decl(func_to_data, func_decl)
                          ELSE func_to_data
       /\ work' = Tail(work)
       /\ last' = Step("FuncDecl", work[1].node, GLOBAL)
       /\ UNCHANGED <<prog, status, code, scope_to_data, struct_to_data,
                      data_val_to_label, cur_tmp_label>>

\* code_gen, FuncDef, up to the body: label, registration, prologue
FuncDefStart(func_def, B) ==
    /\ last' = Step("FuncDef", func_def, GLOBAL)
    /\ UNCHANGED <<prog, struct_to_data, data_val_to_label, cur_tmp_label>>
    /\ IF B.ok
       THEN LET body_data == B.funcs[func_def.decl.name].body_data[1] IN
            /\ status' = "running"
            /\ scope_to_data' = B.scopes
            /\ func_to_data' = B.funcs
            /\ code' = code \o <<ILabel(FuncLabel(func_def.decl.name))>>
                            \o [i \in 1..Len(body_data.regs_used) |->
                                  IR("PUSH", <<body_data.regs_used[i]>>)]
                            \o Repeat(IR("PUSH", <<"ZR">>), body_data.local_vars_size)
            /\ work' = Items(func_def.body.items, ScopeOf(func_def.decl.name))
                          \o <<WFuncEnd(func_def)>> \o Tail(work)
       ELSE /\ status' = "panic"
            /\ UNCHANGED <<scope_to_data, func_to_data, code, work>>

ExtFuncDef ==
    /\ Running("ext", "FuncDef")
    /\ FuncDefStart(work[1].node,
                    register_func_body(scope_to_data,
                                       register_func_decl(func_to_data, work[1].node.decl),
                                       work[1].node.body, work[1].node.decl,
                                       work[1].scope))

\* a variant that pops the saved registers in the order of their pushes
FuncTeardownInPushOrder(local_vars_size, regs) ==
    Repeat(IR("POP", <<"ZR">>), local_vars_size)
        \o [i \in 1..Len(regs) |-> IR("POP", <<regs[i]>>)]
        \o <<IR("RET", <<>>)>>

\* the lines after the end label: the locals released, the saved registers
\* popped last-pushed first, RET
FuncTeardown(local_vars_size, regs) ==
    Repeat(IR("POP", <<"ZR">>), local_vars_size)
        \o [i \in 1..Len(regs) |-> IR("POP", <<regs[Len(regs) + 1 - i]>>)]
        \o <<IR("RET", <<>>)>>

\* code_gen, FuncDef, after the body: end label, teardown, RET
FuncDefEnd ==
    /\ status = "running" /\ work # <<>> /\ work[1].k = "funcend"
    /\ LET func_name == work[1].node.decl.name
           body_data == func_to_data[func_name].body_data[1]
       IN Commit(PushAll(Self, <<ILabel(FuncEndLabel(func_name))>>
                               \o FuncTeardown(body_data.local_vars_size,
                                               body_data.regs_used)),
                 Tail(work), Step("FuncDefEnd", work[1].node, GLOBAL))

ExtStructDecl ==
    /\ Running("ext", "StructDecl")
    /\ LET R == register_struct(work[1].node) IN
       /\ last' = Step("StructDecl", work[1].node, GLOBAL)
       /\ UNCHANGED <<prog, code, scope_to_data, func_to_data, data_val_to_label,
                      cur_tmp_label>>
       /\ IF R.ok
          THEN /\ struct_to_data' = Put(struct_to_data, work[1].node.name, R.data)
               /\ work' = Tail(work)
               /\ status' = "running"
          ELSE /\ status' = "panic"
               /\ UNCHANGED <<struct_to_data, work>>

\* External::VarDecl(_) => {}: the globals were registered at the root
ExtVarDecl ==
    /\ Running("ext", "VarDecl")
    /\ Commit(Self, Tail(work), Step("VarDecl", work[1].node, GLOBAL))

StmtReturn ==
    /\ Running("stmt", "Return")
    /\ LET ret == work[1].node
           scope == work[1].scope
           V == IF ret.expr = <<>> THEN Self
                ELSE PushAll(right_gen(Self, ret.expr[1], scope),
                             <<II("ADD", <<"R2", "BP">>, 2), IR("STR", <<"R2", "R1">>)>>)
       IN Commit(IF scope \in DOMAIN scope_to_data
                 THEN Push(V, IL("JUMP", <<>>, FuncEndLabel(scope_to_data[scope].parent_func)))
                 ELSE Fail(V),
                 Tail(work), Step("Return", ret, scope))

\* a variant that emits the initializer before the name is marked declared
DeclGenMarkedAfter(G, U, decl, scope) ==
    LET C == IF ~decl.hasInit THEN G
             ELSE IF decl.k = "VarDecl"
             THEN PushAll(right_gen(Push(codegen_load_addr_of_var(G, decl.name, scope),
                                         IR("PUSH", <<"R1">>)),
                                    decl.init[1], scope),
                          <<IR("POP", <<"R2">>), IR("STR", <<"R2", "R1">>)>>)
             ELSE gen_arr_init_code(G, decl.name, decl.init, scope)
    IN [C EXCEPT !.ok = C.ok /\ U.ok, !.scopes = U.scopes]

\* code_gen, Statement::Decl: U is what update_var_declared returned; the
\* code of the initializer is emitted with the name marked
DeclGen(G, U, decl, scope) ==
    IF ~decl.hasInit THEN [G EXCEPT !.ok = U.ok, !.scopes = U.scopes]
    ELSE IF decl.k = "VarDecl"
    THEN PushAll(right_gen(Push(codegen_load_addr_of_var(
                                    [G EXCEPT !.ok = U.ok, !.scopes = U.scopes],
                                    decl.name, scope),
                                IR("PUSH", <<"R1">>)),
                           decl.init[1], scope),
                 <<IR("POP", <<"R2">>), IR("STR", <<"R2", "R1">>)>>)
    ELSE gen_arr_init_code([G EXCEPT !.ok = U.ok, !.scopes = U.scopes],
                           decl.name, decl.init, scope)

StmtDecl ==
    /\ Running("stmt", "Decl")
    /\ Commit(DeclGen(Self,
                      update_var_declared(scope_to_data, work[1].node.decl.name,
                                          work[1].scope),
                      work[1].node.decl, work[1].scope),
              Tail(work), Step("Decl", work[1].node, work[1].scope))

StmtAssignment ==
    /\ Running("stmt", "Assignment")
    /\ Commit(Gen(<<TAssign(work[1].node.ass, work[1].scope)>>, Self),
              Tail(work), Step("Assignment", work[1].node, work[1].scope))

StmtExpression ==
    /\ Running("stmt", "Expression")
    /\ Commit(right_gen(Self, work[1].node.exp, work[1].scope),
              Tail(work), Step("Expression", work[1].node, work[1].scope))

StmtIf ==
    /\ Running("stmt", "If")
    /\ LET if_stmt == work[1].node
           else_label == get_tmp_label("IF", cur_tmp_label, "ELSE")
           if_end_label == get_tmp_label("IF", cur_tmp_label, "END")
           G == PushAll(right_gen(inc_tmp_label(Self), if_stmt.cond, work[1].scope),
                        <<II("TSTN", <<"R1">>, 0), IL("FJMP", <<>>, else_label)>>)
       IN Commit(G,
                 Items(if_stmt.iftrue.items, if_stmt.iftrue.code_loc)
                    \o <<WEmit(<<IL("JUMP", <<>>, if_end_label), ILabel(else_label)>>)>>
                    \o (IF if_stmt.iffalse = <<>> THEN <<>>
                        ELSE Items(if_stmt.iffalse[1].items, if_stmt.iffalse[1].code_loc))
                    \o <<WEmit(<<ILabel(if_end_label)>>)>>
                    \o Tail(work),
                 Step("If", if_stmt, work[1].scope))

StmtCompound ==
    /\ Running("stmt", "Compound")
    /\ Commit(Self,
              Items(work[1].node.comp.items, work[1].node.comp.code_loc) \o Tail(work),
              Step("Compound", work[1].node, work[1].scope))

StmtWhileLoop ==
    /\ Running("stmt", "WhileLoop")
    /\ LET wl == work[1].node
           while_start == get_tmp_label("WHILE", cur_tmp_label, "START")
           while_end == get_tmp_label("WHILE", cur_tmp_label, "END")
           U == update_scope_break_continue_labels(scope_to_data, wl.code_loc,
                                                   while_end, while_start)
           L == [inc_tmp_label(Self) EXCEPT !.ok = U.ok, !.scopes = U.scopes]
           G == PushAll(right_gen(Push(L, ILabel(while_start)), wl.cond, work[1].scope),
                        <<II("TSTN", <<"R1">>, 0), IL("FJMP", <<>>, while_end)>>)
       IN Commit(G,
                 Items(wl.body.items, wl.code_loc)
                    \o <<WEmit(<<IL("JUMP", <<>>, while_start), ILabel(while_end)>>)>>
                    \o Tail(work),
                 Step("WhileLoop", wl, work[1].scope))

StmtDoWhileLoop ==
    /\ Running("stmt", "DoWhileLoop")
    /\ LET dwl == work[1].node
           dowhile_cond == get_tmp_label("DOWHILE", cur_tmp_label, "COND")
           dowhile_body == get_tmp_label("DOWHILE", cur_tmp_label, "BODY")
           dowhile_end == get_tmp_label("DOWHILE", cur_tmp_label, "END")
           U == update_scope_break_continue_labels(scope_to_data, dwl.code_loc,
                                                   dowhile_end, dowhile_cond)
           L == [inc_tmp_label(Self) EXCEPT !.ok = U.ok, !.scopes = U.scopes]
           G == PushAll(right_gen(PushAll(L, <<IL("JUMP", <<>>, dowhile_body),
                                               ILabel(dowhile_cond)>>),
                                  dwl.cond, work[1].scope),
                        <<II("TSTN", <<"R1">>, 0), IL("FJMP", <<>>, dowhile_end),
                          ILabel(dowhile_body)>>)
       IN Commit(G,
                 Items(dwl.body.items, dwl.code_loc)
                    \o <<WEmit(<<IL("JUMP", <<>>, dowhile_cond), ILabel(dowhile_end)>>)>>
                    \o Tail(work),
                 Step("DoWhileLoop", dwl, work[1].scope))

\* code_gen, ForLoop, up to the initializer
\* a variant that defines the next label only when there is a next clause
ForLoopWorkNextOmitted(fl, n) ==
    OptItems(fl.init, fl.code_loc)
        \o <<WForCond(fl, n)>>
        \o Items(fl.body.items, fl.code_loc)
        \o (IF fl.next = <<>> THEN <<>>
            ELSE <<WEmit(<<ILabel(get_tmp_label("FOR", n, "NEXT"))>>)>>)
        \o OptItems(fl.next, fl.code_loc)
        \o <<WEmit(<<IL("JUMP", <<>>, get_tmp_label("FOR", n, "COND")),
                     ILabel(get_tmp_label("FOR", n, "END"))>>)>>

\* what a for loop numbered n compiles, in order: the initializer, the
\* condition, the body, the next label, the next clause, the jump back
ForLoopWork(fl, n) ==
    OptItems(fl.init, fl.code_loc)
        \o <<WForCond(fl, n)>>
        \o Items(fl.body.items, fl.code_loc)
        \o <<WEmit(<<ILabel(get_tmp_label("FOR", n, "NEXT"))>>)>>
        \o OptItems(fl.next, fl.code_loc)
        \o <<WEmit(<<IL("JUMP", <<>>, get_tmp_label("FOR", n, "COND")),
                     ILabel(get_tmp_label("FOR", n, "END"))>>)>>

StmtForLoop ==
    /\ Running("stmt", "ForLoop")
    /\ LET fl == work[1].node
           for_end == get_tmp_label("FOR", cur_tmp_label, "END")
           for_next == get_tmp_label("FOR", cur_tmp_label, "NEXT")
           U == update_scope_break_continue_labels(scope_to_data, fl.code_loc,
                                                   for_end, for_next)
           G == [inc_tmp_label(Self) EXCEPT !.ok = U.ok, !.scopes = U.scopes]
       IN Commit(G, ForLoopWork(fl, cur_tmp_label) \o Tail(work),
                 Step("ForLoop", fl, work[1].scope))

\* code_gen, ForLoop, after the initializer: the condition label and test
ForLoopCond ==
    /\ status = "running" /\ work # <<>> /\ work[1].k = "forcond"
    /\ LET fl == work[1].node
           L == Push(Self, ILabel(get_tmp_label("FOR", work[1].n, "COND")))
           G == IF fl.cond = <<>> THEN L
                ELSE PushAll(right_gen(L, fl.cond[1], fl.code_loc),
                             <<II("TSTN", <<"R1">>, 0),
                               IL("FJMP", <<>>, get_tmp_label("FOR", work[1].n, "END"))>>)
       IN Commit(G, Tail(work), Step("ForLoopCond", fl, fl.code_loc))

BreakContinue(which) ==
    LET l == find_break_continue_labels(scope_to_data, work[1].scope) IN
    Commit(IF l.panic \/ l.some = <<>> THEN Fail(Self)
           ELSE Push(Self, IL("JUMP", <<>>, l.some[1][which])),
           Tail(work), Step(work[1].node.k, work[1].node, work[1].scope))

StmtBreak == Running("stmt", "Break") /\ BreakContinue("break_label")

StmtContinue == Running("stmt", "Continue") /\ BreakContinue("continue_label")

\* the lines that close a construct once its nested block has been emitted
EmitPending ==
    /\ status = "running" /\ work # <<>> /\ work[1].k = "emit"
    /\ Commit(PushAll(Self, work[1].code), Tail(work), Step("Emit", NoNode, GLOBAL))

\* _compile returns the code
CompileDone ==
    /\ status = "running" /\ work = <<>>
    /\ status' = "done"
    /\ last' = Step("Done", NoNode, GLOBAL)
    /\ UNCHANGED <<prog, work, code, scope_to_data, func_to_data, struct_to_data,
                   data_val_to_label, cur_tmp_label>>

-----------------------------------------------------------------------------
(* The programs that are compiled: one family per construct under study,   *)
(* each drawn from the bounded parameter sets below.                       *)

Kind(t, dims) == [type |-> t, dims |-> dims]
MkDecl(name, kind) ==
    IF kind.dims = <<>> THEN VarDecl(name, kind.type)
    ELSE ArrayDecl(name, kind.type, kind.dims)

Dims1 == {<<a>> : a \in 1..MaxDim}
Dims2 == {<<a, b>> : a \in 1..MaxDim, b \in 1..MaxDim}
Dims3 == {<<a, b, c>> : a \in 1..MaxDim, b \in 1..MaxDim, c \in 1..MaxDim}
\* the dimensions of the indexed array: up to three, the second up to MaxDim + 1
IndexDims == Dims1 \cup {<<a, b>> : a \in 1..MaxDim, b \in 1..(MaxDim + 1)} \cup Dims3

\* the kinds of a struct field
FieldKinds ==
    {Kind(TInt, <<>>), Kind(TPtr(TInt), <<>>)}
        \cup {Kind(TChar, d) : d \in Dims1} \cup {Kind(TInt, d) : d \in Dims2}

\* the kinds of a local variable
LocalKinds ==
    {Kind(TInt, <<>>), Kind(TStruct("A"), <<>>), Kind(TStruct("B"), <<>>)}
        \cup {Kind(TInt, d) : d \in Dims1} \cup {Kind(TStruct("A"), d) : d \in Dims1}

\* the indices inside the dimensions
IndicesOf(dims) ==
    {i \in [1..Len(dims) -> 0..MaxDim] : \A j \in 1..Len(dims) : i[j] < dims[j]}

ArgNames == <<"x1", "x2", "x3", "x4">>
IntArgs(n) == [i \in 1..n |-> VarDecl(ArgNames[i], TInt)]

Default ==
    [body |-> "scopes", ka |-> Kind(TInt, <<>>), kb |-> Kind(TInt, <<>>), nargs |-> 1,
     fk1 |-> Kind(TInt, <<>>), fk2 |-> Kind(TInt, <<>>), storage |-> "Local",
     field |-> "x", dims |-> <<1>>, idx |-> <<0>>, item |-> TInt, ret |-> TInt,
     op |-> "PPX", form |-> 0, outer |-> "WhileLoop", inner |-> "WhileLoop",
     jump |-> "Break", place |-> 0, s1 |-> "a", s2 |-> "a", s3 |-> "a",
     order |-> <<"D">>, bop |-> "EQ", va |-> 0, vb |-> 0]

\* the kinds of the two variables named v of a for loop: the one of its
\* initializer and the one of its body, never the same
ForKinds == {Kind(TInt, <<>>), Kind(TInt, <<MaxDim>>), Kind(TStruct("A"), <<>>)}

ScopesParams ==
    {[Default EXCEPT !.body = "scopes", !.ka = a, !.kb = b, !.nargs = n, !.fk1 = f] :
        a \in LocalKinds, b \in LocalKinds, n \in 0..MaxArgs,
        f \in {Kind(TInt, <<>>), Kind(TChar, <<MaxDim>>)}}

StructParams ==
    {[Default EXCEPT !.body = "structs", !.fk1 = f, !.fk2 = g] :
        f \in FieldKinds, g \in FieldKinds}

IndexParams ==
    UNION {{[Default EXCEPT !.body = "index", !.dims = d, !.idx = i, !.item = t,
                            !.form = m, !.fk1 = Kind(TChar, <<MaxDim>>)] :
                i \in IndicesOf(d), t \in {TInt, TStruct("A")}, m \in {0, 1}} :
           d \in IndexDims}

CallParams ==
    {[Default EXCEPT !.body = "call", !.ret = r, !.nargs = n, !.form = m, !.fk1 = f] :
        r \in {TVoid, TInt, TChar, TPtr(TInt), TStruct("A")}, n \in 0..MaxArgs,
        m \in {0, 1}, f \in {Kind(TInt, <<>>), Kind(TChar, <<MaxDim>>)}}

IncDecParams ==
    {[Default EXCEPT !.body = "incdec", !.item = t, !.op = o, !.storage = st, !.fk1 = f] :
        t \in {TInt, TChar, TPtr(TInt), TPtr(TChar), TPtr(TPtr(TInt)),
               TPtr(TStruct("A")), TPtr(TStruct("B"))},
        o \in {"PPX", "MMX", "XPP", "XMM"}, st \in {"Local", "Arg", "Global"},
        f \in {Kind(TInt, <<>>)} \cup {Kind(TChar, d) : d \in Dims1}}

ArrowParams ==
    {[Default EXCEPT !.body = "arrow", !.field = fl, !.storage = st, !.fk1 = f, !.fk2 = g,
                     !.form = m] :
        fl \in {"x", "y", "z"}, st \in {"Local", "Arg", "Global"},
        f \in FieldKinds, g \in {Kind(TInt, <<>>), Kind(TChar, <<MaxDim>>)}, m \in {0, 1}}

LoopKinds == {"WhileLoop", "DoWhileLoop", "ForLoop"}
\* the places of the break or continue statement in the flow family
Places == 0..7
Texts == {"a", "b"}

FlowParams ==
    {[Default EXCEPT !.body = "flow", !.outer = o, !.inner = i, !.jump = j, !.place = p] :
        o \in LoopKinds, i \in LoopKinds, j \in {"Break", "Continue"}, p \in Places}
    \cup {[Default EXCEPT !.body = "flow", !.place = 7, !.s1 = a, !.s2 = b, !.s3 = c] :
            a \in Texts, b \in Texts, c \in Texts}

\* the prototypes and the definition of f, in order: "P0" is int f(); "P" is
\* the prototype with the definition's arguments, "D" the definition
Orders ==
    {<<"D">>, <<"P0", "D">>, <<"P", "D">>, <<"D", "P0">>, <<"D", "P">>,
     <<"P0", "P">>, <<"P0", "P", "D">>}

FuncsParams ==
    {[Default EXCEPT !.body = "funcs", !.order = o, !.nargs = n, !.ka = a, !.ret = r] :
        o \in Orders, n \in 0..MaxArgs,
        a \in {Kind(TInt, <<>>)} \cup {Kind(TInt, d) : d \in Dims1},
        r \in {TVoid, TInt, TStruct("A")}}

\* the names read in value mode: n, arr, arr[1], s.x, p->x
ValueForms == 0..4
ValueParams ==
    {[Default EXCEPT !.body = "value", !.form = m, !.fk1 = f] :
        m \in ValueForms, f \in FieldKinds}

\* the operators that are compiled to a test, and the operands' values
BooleanOps == {"EQ", "NEQ", "LT", "LTEQ", "GT", "GTEQ", "LogicalAnd", "LogicalOr"}
OperandValues == 0..2
BoolParams ==
    {[Default EXCEPT !.body = "bool", !.bop = o, !.va = a, !.vb = b] :
        o \in BooleanOps, a \in OperandValues, b \in OperandValues}

\* a block that declares the name of a variable of the function body
ShadowForms == 0..3
ShadowParams ==
    {[Default EXCEPT !.body = "shadow", !.form = m] : m \in ShadowForms \ {2}}
        \cup {[Default EXCEPT !.body = "shadow", !.form = 2, !.ka = k[1], !.kb = k[2]] :
                k \in {h \in ForKinds \X ForKinds :
                            h[1] # h[2] /\ h[1].type = TInt}}

\* two global variables of every kind, struct A declared before them
GlobalKinds == {Kind(TInt, <<>>), Kind(TInt, <<MaxDim>>), Kind(TStruct("A"), <<>>)}
GlobalsParams ==
    {[Default EXCEPT !.body = "globals", !.ka = a, !.kb = b] :
        a \in GlobalKinds, b \in GlobalKinds}

\* the operand of a dereference: a pointer, a dereference, an array, an
\* element of an array of pointers
DerefForms == 0..3
DerefParams == {[Default EXCEPT !.body = "deref", !.form = m] : m \in DerefForms}

Params == DerefParams \cup GlobalsParams \cup ShadowParams \cup ScopesParams \cup StructParams \cup IndexParams \cup CallParams
            \cup IncDecParams \cup ArrowParams \cup FlowParams \cup FuncsParams
            \cup ValueParams \cup BoolParams

\* struct A { fk1 x; fk2 y; int z; };  struct B { int h; struct A a; int *t; };
StructA(par) ==
    XStructDecl("A", <<[name |-> "x", decl |-> MkDecl("x", par.fk1)],
                       [name |-> "y", decl |-> MkDecl("y", par.fk2)],
                       [name |-> "z", decl |-> VarDecl("z", TInt)]>>)
StructB ==
    XStructDecl("B", <<[name |-> "h", decl |-> VarDecl("h", TInt)],
                       [name |-> "a", decl |-> VarDecl("a", TStruct("A"))],
                       [name |-> "t", decl |-> VarDecl("t", TPtr(TInt))]>>)

\* nested blocks of every kind, with declarations of the kinds ka and kb
ScopesBody(par) ==
    <<SDecl(MkDecl("a", par.ka)),
      SDecl(VarDeclInit("n", TInt, EInt(1))),
      SCompound(Compound(CodeLoc(3, 1),
            <<SDecl(MkDecl("b", par.kb)), SDecl(MkDecl("a", par.kb)),
              SCompound(Compound(CodeLoc(3, 2), <<SDecl(MkDecl("b", par.ka))>>))>>)),
      SIf(EVar("n"),
          Compound(CodeLoc(4, 1), <<SDecl(MkDecl("c", par.kb))>>),
          <<Compound(CodeLoc(4, 2), <<SDecl(MkDecl("c", par.ka))>>)>>),
      SWhile(EVar("n"), Compound(CodeLoc(5, 1), <<SDecl(MkDecl("d", par.kb)), SBreak>>)),
      SDoWhile(EVar("n"), Compound(CodeLoc(6, 1), <<SDecl(MkDecl("e", par.ka)), SContinue>>)),
      SFor(<<Compound(CodeLoc(7, 0), <<SDecl(VarDeclInit("i", TInt, EInt(0))),
                                       SDecl(MkDecl("k", par.kb))>>)>>,
           <<EBin("LT", EVar("i"), EInt(2))>>,
           <<Compound(CodeLoc(7, 0), <<SExpr(EUn("XPP", EVar("i"), <<"i">>))>>)>>,
           Compound(CodeLoc(7, 1), <<SDecl(MkDecl("j", par.ka))>>)),
      SAssign(EVar("n"), "", EVar("g0")),
      SExpr(EVar("n")),
      SReturn(<<EVar("n")>>)>>

\* an index expression: the constant, or a sum that uses R2 on the way
IndexExpr(v, form) == IF form = 0 THEN EInt(v) ELSE EBin("ADD", EInt(0), EInt(v))

\* T arr[dims]; &arr[idx];
IndexBody(par) ==
    <<SDecl(VarDecl("n", TInt)),
      SDecl(ArrayDecl("arr", par.item, par.dims)),
      SExpr(EUn("REF", EName(ArrayRef(ID("arr"),
                    [j \in 1..Len(par.idx) |-> IndexExpr(par.idx[j], par.form)])), <<>>))>>

\* f(1, .., h(2)); with f of the given return type and argument count
CallBody(par) ==
    <<SExpr(ECall("f", [j \in 1..par.nargs |->
                          IF par.form = 1 /\ j = 1 THEN ECall("h", <<EInt(2)>>)
                          ELSE EInt(j)])),
      SExpr(ECall("h", <<ECall("f", [j \in 1..par.nargs |-> EInt(j)])>>))>>

\* the variable p of the storage class under study
PDecl(par, t) == VarDecl("p", t)
PLocal(par, t) == IF par.storage = "Local" THEN <<SDecl(PDecl(par, t))>> ELSE <<>>
PArgs(par, t) == IF par.storage = "Arg" THEN <<PDecl(par, t)>> ELSE <<>>
PGlobal(par, t) == IF par.storage = "Global" THEN <<XVarDecl(PDecl(par, t))>> ELSE <<>>

IncDecBody(par) ==
    <<SDecl(VarDecl("n", TInt))>> \o PLocal(par, par.item)
        \o <<SExpr(EUn(par.op, EVar("p"), <<"p">>))>>

\* p->field = 5;  or  p->field = n + 5;
ArrowBody(par) ==
    <<SDecl(VarDecl("n", TInt))>> \o PLocal(par, TPtr(TStruct("A")))
        \o <<SAssign(EName(StructRef(ID("p"), "ARROW", par.field)), "",
                     IF par.form = 0 THEN EInt(5) ELSE EBin("ADD", EVar("n"), EInt(5)))>>

\* a loop of the given kind around a block
Loop(kind, cond, body) ==
    CASE kind = "WhileLoop" -> SWhile(cond, body)
      [] kind = "DoWhileLoop" -> SDoWhile(cond, body)
      [] OTHER -> SFor(<<>>, <<cond>>, <<>>, body)

\* the break or continue statement, at the place under study only
Jump(par, p) ==
    IF par.place # p THEN <<>>
    ELSE IF par.jump = "Break" THEN <<SBreak>> ELSE <<SContinue>>

\* two nested loops with if blocks, compound blocks, string constants, a
\* ternary and an early return, then a loop of each kind; one break or
\* continue at par.place
FlowBody(par) ==
    <<SDecl(VarDeclInit("n", TInt, EInt(1))), SExpr(EStr(par.s1))>>
    \o Jump(par, 0)
    \o <<SIf(EVar("n"), Compound(CodeLoc(2, 1), Jump(par, 1)), <<>>),
          Loop(par.outer, EVar("n"), Compound(CodeLoc(3, 1),
            Jump(par, 2)
            \o <<SIf(EVar("n"),
                     Compound(CodeLoc(4, 1),
                              <<SCompound(Compound(CodeLoc(4, 2), Jump(par, 3)))>>),
                     <<Compound(CodeLoc(4, 3), <<SExpr(EStr(par.s2))>>)>>),
                 Loop(par.inner, EVar("n"), Compound(CodeLoc(5, 1),
                    Jump(par, 4)
                    \o <<SIf(EVar("n"),
                             Compound(CodeLoc(6, 1),
                                      Jump(par, 5) \o <<SReturn(<<EVar("n")>>)>>),
                             <<>>)>>)),
                 SCompound(Compound(CodeLoc(7, 1), Jump(par, 6)))>>
            \o Jump(par, 7)
            \o <<SExpr(ETernary(EVar("n"), EStr(par.s3), EStr("a")))>>)),
          SWhile(EVar("n"), Compound(CodeLoc(8, 1), <<>>)),
          SDoWhile(EVar("n"), Compound(CodeLoc(8, 2), <<>>)),
          SFor(<<>>, <<>>, <<>>, Compound(CodeLoc(8, 3), <<>>)),
          SReturn(<<EVar("n")>>)>>

\* int n; int arr[MaxDim]; struct A s; struct A *p; and one name read as a
\* value
ValueName(form) ==
    CASE form = 0 -> ID("n")
      [] form = 1 -> ID("arr")
      [] form = 2 -> ArrayRef(ID("arr"), <<EInt(1)>>)
      [] form = 3 -> StructRef(ID("s"), "DOT", "x")
      [] OTHER -> StructRef(ID("p"), "ARROW", "x")

ValueBody(par) ==
    <<SDecl(VarDecl("n", TInt)),
      SDecl(ArrayDecl("arr", TInt, <<MaxDim>>)),
      SDecl(VarDecl("s", TStruct("A"))),
      SDecl(VarDecl("p", TPtr(TStruct("A")))),
      SExpr(EName(ValueName(par.form)))>>

\* the v of a for loop's initializer: a word initialized from v, or an array
ForInitDecl(kind) ==
    IF kind.dims = <<>> THEN VarDeclInit("v", kind.type, EVar("v")) ELSE MkDecl("v", kind)

\* int v; v = 1; then a block that declares v again and names v in the
\* initializer: a compound, an array, a for loop whose body declares v once
\* more, an if block
ShadowBlock(par) ==
    CASE par.form = 0 ->
            SCompound(Compound(CodeLoc(3, 1),
                <<SExpr(EVar("v")), SDecl(VarDeclInit("v", TInt, EVar("v"))),
                  SExpr(EVar("v"))>>))
      [] par.form = 1 ->
            SCompound(Compound(CodeLoc(3, 1),
                <<SDecl(ArrayDeclInit("v", TInt, <<1>>, <<EVar("v")>>))>>))
      [] par.form = 2 ->
            SFor(<<Compound(CodeLoc(3, 0), <<SDecl(ForInitDecl(par.ka))>>)>>, <<>>, <<>>,
                 Compound(CodeLoc(3, 1),
                    <<SDecl(MkDecl("v", par.kb)),
                      SExpr(EUn("REF", EVar("v"), <<>>)), SBreak>>))
      [] OTHER ->
            SIf(EVar("v"),
                Compound(CodeLoc(3, 1),
                    <<SDecl(VarDeclInit("v", TInt, EBin("ADD", EVar("v"), EInt(1))))>>),
                <<>>)

ShadowBody(par) ==
    <<SDecl(VarDecl("v", TInt)), SAssign(EVar("v"), "", EInt(1)), ShadowBlock(par),
      SExpr(EVar("v"))>>

\* ka ga; kb gb; at file level, and &ga; &gb; in main
GlobalsExternals(par) ==
    <<XVarDecl(MkDecl("ga", par.ka)), XVarDecl(MkDecl("gb", par.kb))>>

GlobalsBody(par) ==
    <<SExpr(EUn("REF", EVar("ga"), <<>>)), SExpr(EUn("REF", EVar("gb"), <<>>)),
      SExpr(EUn("REF", EVar("g0"), <<>>))>>

DerefOperand(form) ==
    CASE form = 0 -> EVar("p")
      [] form = 1 -> EUn("DEREF", EVar("q"), <<>>)
      [] form = 2 -> EVar("arr")
      [] OTHER -> EName(ArrayRef(ID("pa"), <<EInt(1)>>))

\* int *p; int **q; int arr[MaxDim]; int *pa[2]; &*e; *e = 5;
DerefBody(par) ==
    <<SDecl(VarDecl("p", TPtr(TInt))), SDecl(VarDecl("q", TPtr(TPtr(TInt)))),
      SDecl(ArrayDecl("arr", TInt, <<MaxDim>>)), SDecl(ArrayDecl("pa", TPtr(TInt), <<2>>)),
      SExpr(EUn("REF", EUn("DEREF", DerefOperand(par.form), <<>>), <<>>)),
      SAssign(EUn("DEREF", DerefOperand(par.form), <<>>), "", EInt(5))>>

\* va op vb;
BoolBody(par) == <<SExpr(EBin(par.bop, EInt(par.va), EInt(par.vb)))>>

\* the arguments of main: words, and in the scopes family the first of kind ka
MainArgs(par) ==
    [i \in 1..(IF par.body = "funcs" THEN 0 ELSE par.nargs) |->
        IF i = 1 /\ par.body = "scopes" THEN MkDecl(ArgNames[1], par.ka)
        ELSE VarDecl(ArgNames[i], TInt)]

\* the arguments of f in the funcs family: the first of kind ka, then words
FArgs(par) ==
    [i \in 1..par.nargs |->
        IF i = 1 THEN MkDecl(ArgNames[1], par.ka) ELSE VarDecl(ArgNames[i], TInt)]

\* ret f(args) { ka a; int n; if (n) { ka b; return n; } return x; }
FBody(par) ==
    <<SDecl(MkDecl("a", par.ka)),
      SDecl(VarDecl("n", TInt)),
      SIf(EVar("n"),
          Compound(CodeLoc(2, 1),
                   <<SDecl(MkDecl("b", par.ka)),
                     SReturn(IF par.ret = TVoid THEN <<>> ELSE <<EVar("n")>>)>>),
          <<>>),
      SReturn(IF par.ret = TVoid THEN <<>>
              ELSE <<EVar(IF par.nargs = 0 THEN "n" ELSE ArgNames[par.nargs])>>)>>

\* the prototypes and the definition of f in the order under study
FExternals(par) ==
    [i \in 1..Len(par.order) |->
        CASE par.order[i] = "P0" -> XFuncDecl("f", <<>>, par.ret)
          [] par.order[i] = "P" -> XFuncDecl("f", FArgs(par), par.ret)
          [] OTHER -> XFuncDef("f", FArgs(par), par.ret, FBody(par))]

\* the value of the j-th argument of a call in the funcs family
ArgValue(j) == 10 + j

\* void main() { int n; f(11, 12, ..); return; }
FuncsBody(par) ==
    <<SDecl(VarDecl("n", TInt)),
      SExpr(ECall("f", [j \in 1..par.nargs |-> EInt(ArgValue(j))])),
      SReturn(<<>>)>>

PType(par) == IF par.body = "arrow" THEN TPtr(TStruct("A")) ELSE par.item

Build(par) ==
    <<StructA(par), StructB, XVarDecl(VarDecl("g0", TInt))>>
    \o (IF par.body \in {"incdec", "arrow"} THEN PGlobal(par, PType(par)) ELSE <<>>)
    \o (IF par.body = "globals" THEN GlobalsExternals(par) ELSE <<>>)
    \o (IF par.body = "funcs" THEN FExternals(par)
        ELSE <<XFuncDecl("f", IntArgs(par.nargs), par.ret)>>)
    \o <<XFuncDecl("h", IntArgs(1), TInt)>>
    \o <<XFuncDef("main",
                  MainArgs(par)
                    \o (IF par.body \in {"incdec", "arrow"} THEN PArgs(par, PType(par))
                        ELSE <<>>),
                  IF par.body \in {"scopes", "flow"} THEN TInt ELSE TVoid,
                  CASE par.body = "scopes" -> ScopesBody(par)
                    [] par.body = "structs" -> <<SReturn(<<>>)>>
                    [] par.body = "index" -> IndexBody(par)
                    [] par.body = "call" -> CallBody(par)
                    [] par.body = "incdec" -> IncDecBody(par)
                    [] par.body = "arrow" -> ArrowBody(par)
                    [] par.body = "flow" -> FlowBody(par)
                    [] par.body = "funcs" -> FuncsBody(par)
                    [] par.body = "value" -> ValueBody(par)
                    [] par.body = "bool" -> BoolBody(par)
                    [] par.body = "shadow" -> ShadowBody(par)
                    [] par.body = "globals" -> GlobalsBody(par)
                    [] par.body = "deref" -> DerefBody(par))>>

NoStep == [k |-> "none", node |-> NoNode, scope |-> GLOBAL, from |-> 1]

Init ==
    /\ \E par \in Params : prog = Build(par)
    /\ status = "start"
    /\ work = <<>>
    /\ code = <<>>
    /\ scope_to_data = EmptyMap
    /\ func_to_data = EmptyMap
    /\ struct_to_data = EmptyMap
    /\ data_val_to_label = EmptyMap
    /\ cur_tmp_label = 0
    /\ last = NoStep

Next ==
    \/ CodeGenRoot
    \/ ExtFuncDecl
    \/ ExtFuncDef
    \/ FuncDefEnd
    \/ ExtStructDecl
    \/ ExtVarDecl
    \/ StmtReturn
    \/ StmtDecl
    \/ StmtAssignment
    \/ StmtExpression
    \/ StmtIf
    \/ StmtCompound
    \/ StmtWhileLoop
    \/ StmtDoWhileLoop
    \/ StmtForLoop
    \/ ForLoopCond
    \/ StmtBreak
    \/ StmtContinue
    \/ EmitPending
    \/ CompileDone

Spec == Init /\ [][Next]_vars

-----------------------------------------------------------------------------
(* Properties of the scope, function and struct tables.                    *)

\* the functions whose body has been registered
Registered == {f \in DOMAIN func_to_data : func_to_data[f].body_data # <<>>}

\* the variables of function f, each named by its scope and its name
FuncVars(f) ==
    UNION {{<<s, v>> : v \in DOMAIN scope_to_data[s].variables} :
           s \in {t \in DOMAIN scope_to_data : scope_to_data[t].parent_func = f}}
VarOf(p) == scope_to_data[p[1]].variables[p[2]]

\* the scope and the scopes that enclose it, up to the root
RECURSIVE Enclosing(_)
Enclosing(scope) ==
    IF scope = GLOBAL \/ scope \notin DOMAIN scope_to_data THEN {scope}
    ELSE {scope} \cup Enclosing(scope_to_data[scope].parent_scope)

DeclaredIn(var_name, scope) ==
    /\ scope \in DOMAIN scope_to_data
    /\ var_name \in DOMAIN scope_to_data[scope].variables
    /\ var_name \in scope_to_data[scope].declared_variables

\* the words of a slot when offset is read as its first word, and when it is
\* read as its last word
WordsFrom(v) == v.offset..(v.offset + v.size - 1)
WordsUpTo(v) == (v.offset - v.size + 1)..v.offset

\* C1, as stated: any two distinct variables of a registered function, locals
\* of any nested scope and arguments alike, have disjoint ranges
\* [offset, offset + size) of their recorded offset and size.
C1_AsStated ==
    \A f \in Registered : \A p, q \in FuncVars(f) :
        p # q => WordsFrom(VarOf(p)) \cap WordsFrom(VarOf(q)) = {}

\* C1, amended: the recorded offset is the last word of the slot, and locals
\* and arguments are numbered separately; any two distinct variables of a
\* registered function that are both locals (of any nested scope) or both
\* arguments have disjoint ranges [offset - size + 1, offset], every range
\* starts at 0 or above, and the locals' ranges lie below local_vars_size.
C1_SlotsDisjoint ==
    \A f \in Registered : \A p \in FuncVars(f) :
        /\ VarOf(p).offset - VarOf(p).size + 1 >= 0
        /\ VarOf(p).local_or_arg = "Local"
              => VarOf(p).offset < func_to_data[f].body_data[1].local_vars_size
        /\ \A q \in FuncVars(f) :
              p # q /\ VarOf(p).local_or_arg = VarOf(q).local_or_arg
                  => WordsUpTo(VarOf(p)) \cap WordsUpTo(VarOf(q)) = {}

\* a registered function with an argument, a one-word local, a local array and
\* a local struct of more than one word, in different scopes
C1_Witness ==
    \E f \in Registered : \E a, p, q, r \in FuncVars(f) :
        /\ VarOf(a).local_or_arg = "Arg"
        /\ VarOf(p).local_or_arg = "Local" /\ VarOf(p).size = 1
        /\ VarOf(q).local_or_arg = "Local" /\ VarOf(q).size > 1
        /\ VarOf(q).var_type.kind = "Array"
        /\ VarOf(r).local_or_arg = "Local" /\ VarOf(r).size > 1
        /\ VarOf(r).var_type.kind = "Regular"
        /\ q[1] # r[1]

\* the blocks nested in a list of statements, at any depth
RECURSIVE BlocksIn(_)
BlocksIn(items) ==
    UNION {UNION {{StatementBlocks(items[i])[j]}
                    \cup BlocksIn(StatementBlocks(items[i])[j].items) :
                  j \in 1..Len(StatementBlocks(items[i]))} :
           i \in 1..Len(items)}

\* the names that the statements of a block declare directly
DirectDecls(items) == {items[i].decl.name : i \in {j \in 1..Len(items) : items[j].k = "Decl"}}

FuncDefs == {prog[i] : i \in {j \in 1..Len(prog) : prog[j].k = "FuncDef"}}

\* C2: in a registered function, two local declarations in different blocks
\* never have the same offset; the scope entries of the function are its own
\* and one for each block of its body (compound, if and else branches, while,
\* do-while and for bodies), and each entry holds, as locals, the names that
\* its block declares directly.
C2_SharedCursor ==
    \A fd \in FuncDefs : fd.decl.name \in Registered =>
        /\ \A p, q \in FuncVars(fd.decl.name) :
              /\ p[1] # q[1]
              /\ VarOf(p).local_or_arg = "Local"
              /\ VarOf(q).local_or_arg = "Local"
              => VarOf(p).offset # VarOf(q).offset
        /\ {s \in DOMAIN scope_to_data : scope_to_data[s].parent_func = fd.decl.name}
              = {ScopeOf(fd.decl.name)} \cup {b.code_loc : b \in BlocksIn(fd.body.items)}
        /\ \A b \in BlocksIn(fd.body.items) : \A v \in DirectDecls(b.items) :
              /\ v \in DOMAIN scope_to_data[b.code_loc].variables
              /\ scope_to_data[b.code_loc].variables[v].local_or_arg = "Local"

\* a registered function with sibling blocks, a block inside a block and a
\* for-loop, each with a declaration
C2_Witness ==
    \E fd \in FuncDefs :
        /\ fd.decl.name \in Registered
        /\ Cardinality(BlocksIn(fd.body.items)) >= 6
        /\ \A b \in BlocksIn(fd.body.items) : DirectDecls(b.items) # {}
        /\ \E p \in FuncVars(fd.decl.name) : VarOf(p).size > 1

StructDecls == {prog[i] : i \in {j \in 1..Len(prog) : prog[j].k = "StructDecl"}}

RECURSIVE SumOfSizes(_, _)
SumOfSizes(items, n) ==
    IF n = 0 THEN 0 ELSE SumOfSizes(items, n - 1) + get_decl_size(items[n].decl)

\* C3: in every registered struct the first field has offset 0, each field's
\* offset is the sum of the sizes of the fields declared before it, offsets
\* increase strictly in declaration order, and the struct's size is the sum
\* of all field sizes.
C3_StructLayout ==
    \A sd \in StructDecls : sd.name \in DOMAIN struct_to_data =>
        LET data == struct_to_data[sd.name] IN
        /\ data.order = [i \in 1..Len(sd.items) |-> sd.items[i].name]
        /\ data.items[sd.items[1].name].offset = 0
        /\ \A i \in 1..Len(sd.items) :
              /\ data.items[sd.items[i].name].offset = SumOfSizes(sd.items, i - 1)
              /\ data.items[sd.items[i].name].size = get_decl_size(sd.items[i].decl)
        /\ \A i, j \in 1..Len(sd.items) :
              i < j => data.items[sd.items[i].name].offset
                         < data.items[sd.items[j].name].offset
        /\ data.size = SumOfSizes(sd.items, Len(sd.items))

\* a registered struct with an array field of several words before its last
\* field, and a registered struct that holds a struct
C3_Witness ==
    /\ \E sd \in StructDecls :
          /\ sd.name \in DOMAIN struct_to_data
          /\ \E i \in 1..(Len(sd.items) - 1) :
                /\ sd.items[i].decl.k = "ArrayDecl"
                /\ struct_to_data[sd.name].items[sd.items[i].name].size > 1
    /\ \E sd \in StructDecls :
          /\ sd.name \in DOMAIN struct_to_data
          /\ \E i \in 1..(Len(sd.items) - 1) :
                /\ IsStructT(sd.items[i].decl.type)
                /\ struct_to_data[sd.name].items[sd.items[i].name].size > 1

\* a name declared in the block and in a scope that encloses the block
Shadowing(var_name, scope) ==
    /\ DeclaredIn(var_name, scope)
    /\ \E t \in Enclosing(scope) \ {scope} : DeclaredIn(var_name, t)

\* C4: when a name is declared in a nested block and in an enclosing scope
\* and both declarations have been emitted, find_variable from the nested
\* block returns the nested block's VariableData, not the enclosing one's.
C4_InnermostWins ==
    \A s \in DOMAIN scope_to_data : \A v \in DOMAIN scope_to_data[s].variables :
        Shadowing(v, s) =>
            /\ find_variable(scope_to_data, v, s)
                  = [panic |-> FALSE, some |-> <<scope_to_data[s].variables[v]>>]
            /\ \A t \in Enclosing(s) \ {s} :
                  DeclaredIn(v, t) =>
                      find_variable(scope_to_data, v, s).some[1]
                          # scope_to_data[t].variables[v]

\* a block inside a block, both declaring the same name, both emitted
C4_Witness ==
    \E s \in DOMAIN scope_to_data : \E v \in DOMAIN scope_to_data[s].variables :
        /\ Shadowing(v, s)
        /\ scope_to_data[s].parent_scope # ScopeOf(scope_to_data[s].parent_func)
        /\ DeclaredIn(v, scope_to_data[s].parent_scope)

\* a slot that register_scope allocated and whose declaration is not emitted
Pending(var_name, scope) ==
    /\ scope \in DOMAIN scope_to_data
    /\ var_name \in DOMAIN scope_to_data[scope].variables
    /\ var_name \notin scope_to_data[scope].declared_variables

\* C5, as stated: find_variable finds no match for a name whose slot is
\* allocated in the scope and whose declaration is not yet emitted.
C5_AsStated ==
    \A s \in DOMAIN scope_to_data : \A v \in DOMAIN scope_to_data[s].variables :
        Pending(v, s) => find_variable(scope_to_data, v, s).some = <<>>

\* C5, amended: for a name whose slot is allocated in the scope and whose
\* declaration is not yet emitted, find_variable never returns that slot; it
\* finds no match unless an enclosing scope has declared the same name, and
\* then it returns the enclosing declaration.  Once the declaration statement
\* has been emitted, the lookup from its scope and from every scope nested in
\* it finds a match.
C5_DeclaredBeforeUse ==
    /\ \A s \in DOMAIN scope_to_data : \A v \in DOMAIN scope_to_data[s].variables :
          Pending(v, s) =>
              /\ ~find_variable(scope_to_data, v, s).panic
              /\ find_variable(scope_to_data, v, s).some # <<scope_to_data[s].variables[v]>>
              /\ find_variable(scope_to_data, v, s).some = <<>>
                    <=> ~\E t \in Enclosing(s) : DeclaredIn(v, t)
    /\ last.k = "Decl" /\ status = "running" =>
          \A t \in DOMAIN scope_to_data :
              last.scope \in Enclosing(t) =>
                  find_variable(scope_to_data, last.node.decl.name, t).some # <<>>
    /\ \A s, t \in DOMAIN scope_to_data : \A v \in DOMAIN scope_to_data[s].variables :
          DeclaredIn(v, s) /\ s \in Enclosing(t) =>
              find_variable(scope_to_data, v, t).some # <<>>

\* a declaration just emitted in a scope with a nested block, while another
\* slot of the function is still pending
C5_Witness ==
    /\ last.k = "Decl" /\ status = "running"
    /\ last.scope # GLOBAL
    /\ \E t \in DOMAIN scope_to_data : t # last.scope /\ last.scope \in Enclosing(t)
    /\ \E s \in DOMAIN scope_to_data : \E v \in DOMAIN scope_to_data[s].variables :
          Pending(v, s) /\ \E u \in Enclosing(s) : DeclaredIn(v, u)
    /\ \E s \in DOMAIN scope_to_data : \E v \in DOMAIN scope_to_data[s].variables :
          Pending(v, s) /\ ~\E u \in Enclosing(s) : DeclaredIn(v, u)

\* names looked up: the names of the programs and one that is never declared
LookupNames == {"a", "b", "n", "g0", "x1", "p", "nobody"}

\* C6: find_variable returns None, without a panic, for a name declared in
\* neither the given scope nor any scope that encloses it up to the root; and
\* when the whole program is compiled, every local declared by a statement
\* of a function's own scope is still found from that scope.
C6_AbsentAndKept ==
    /\ \A s \in DOMAIN scope_to_data : \A v \in LookupNames :
          (~\E t \in Enclosing(s) : DeclaredIn(v, t))
              => find_variable(scope_to_data, v, s) = [panic |-> FALSE, some |-> <<>>]
    /\ status = "done" =>
          \A fd \in FuncDefs : \A v \in DirectDecls(fd.body.items) :
              /\ find_variable(scope_to_data, v, ScopeOf(fd.decl.name)).some # <<>>
              /\ find_variable(scope_to_data, v, ScopeOf(fd.decl.name)).some[1].name = v

\* compilation finished, with a function that declares locals in its own
\* scope and has blocks, and a name that no scope declares
C6_Witness ==
    /\ status = "done"
    /\ \E fd \in FuncDefs :
          /\ Cardinality(DirectDecls(fd.body.items)) >= 2
          /\ BlocksIn(fd.body.items) # {}
    /\ \A s \in DOMAIN scope_to_data : ~DeclaredIn("nobody", s)

-----------------------------------------------------------------------------
(* The machine that runs the emitted lines: registers, a stack that grows  *)
(* down with SP at the next free word, and the frame of the calling        *)
(* convention.  Only the instructions of straight-line code are run.       *)

INIT_SP_ADDRESS == 9999
\* the address the assembler gives the block of globals
GlobalsAddress == 500

\* the content of a word that the code has not written
Unwritten(a) == 3 * a + 40
Read(mem, a) == IF a \in DOMAIN mem THEN mem[a] ELSE Unwritten(a)

\* BP when func_name runs, called from an empty stack: the arguments, the
\* return value's words, the return address and the caller's BP are pushed,
\* and BP = SP + 1
FrameBP(func_name) ==
    INIT_SP_ADDRESS
        - (Len(func_to_data[func_name].decl_data.args_types)
             + get_type_size(func_to_data[func_name].decl_data.return_type) + 2) + 1

\* the machine after the prologue of func_name: saved registers and locals
\* are pushed
InFrame(func_name) ==
    [ok |-> TRUE,
     regs |-> [r \in {"R1", "R2", "ZR", "BP", "SP"} |->
                 CASE r = "BP" -> FrameBP(func_name)
                   [] r = "SP" -> FrameBP(func_name) - 1
                                    - Len(func_to_data[func_name].body_data[1].regs_used)
                                    - func_to_data[func_name].body_data[1].local_vars_size
                   [] OTHER -> 0],
     mem |-> EmptyMap]

\* operand j of a line: a register's content or the immediate
Operand(M, ins, j) == IF ins.args[j] = "#" THEN ins.n ELSE M.regs[ins.args[j]]

Arith(op, x, y) ==
    CASE op = "ADD" -> x + y
      [] op = "SUB" -> x - y
      [] OTHER -> x * y

\* TSTE, TSTN, TSTL, TSTG a b: 1 when a = b, a # b, a < b, a > b, else 0
Test(op, x, y) ==
    IF CASE op = "TSTE" -> x = y
         [] op = "TSTN" -> x # y
         [] op = "TSTL" -> x < y
         [] OTHER -> x > y
    THEN 1 ELSE 0

\* AND and OR, bit by bit, of two naturals
RECURSIVE Bitwise(_, _, _)
Bitwise(op, x, y) ==
    IF x = 0 /\ y = 0 THEN 0
    ELSE (IF op = "AND" THEN (IF x % 2 = 1 /\ y % 2 = 1 THEN 1 ELSE 0)
          ELSE (IF x % 2 = 1 \/ y % 2 = 1 THEN 1 ELSE 0))
         + 2 * Bitwise(op, x \div 2, y \div 2)

\* one instruction; ok = FALSE on a line that is not straight-line code
Execute(M, ins) ==
    CASE ins.op = "MOV" -> [M EXCEPT !.regs[ins.args[1]] = Operand(M, ins, 2)]
      [] ins.op \in {"ADD", "SUB", "MUL"} ->
            [M EXCEPT !.regs[ins.args[1]] =
                          Arith(ins.op, Operand(M, ins, 2), Operand(M, ins, 3))]
      [] ins.op \in {"TSTE", "TSTN", "TSTL", "TSTG"} ->
            [M EXCEPT !.regs["ZR"] = Test(ins.op, Operand(M, ins, 1), Operand(M, ins, 2))]
      [] ins.op \in {"AND", "OR"} /\ Operand(M, ins, 2) >= 0 /\ Operand(M, ins, 3) >= 0 ->
            [M EXCEPT !.regs[ins.args[1]] =
                          Bitwise(ins.op, Operand(M, ins, 2), Operand(M, ins, 3))]
      [] ins.op = "LEA" /\ ins.lbl = get_global_label ->
            [M EXCEPT !.regs[ins.args[1]] = GlobalsAddress]
      [] ins.op = "LOAD" ->
            [M EXCEPT !.regs[ins.args[1]] = Read(M.mem, M.regs[ins.args[2]])]
      [] ins.op = "STR" ->
            [M EXCEPT !.mem = Put(M.mem, M.regs[ins.args[1]], M.regs[ins.args[2]])]
      [] ins.op = "PUSH" ->
            [M EXCEPT !.mem = Put(M.mem, M.regs["SP"], M.regs[ins.args[1]]),
                      !.regs["SP"] = @ - 1]
      [] ins.op = "POP" ->
            [M EXCEPT !.regs[ins.args[1]] = Read(M.mem, M.regs["SP"] + 1),
                      !.regs["SP"] = IF ins.args[1] = "SP"
                                     THEN Read(M.mem, M.regs["SP"] + 1) ELSE @ + 1]
      [] OTHER -> [M EXCEPT !.ok = FALSE]

RECURSIVE Run(_, _, _)
Run(M, lines, i) ==
    IF i > Len(lines) \/ ~M.ok THEN M ELSE Run(Execute(M, lines[i]), lines, i + 1)

\* the lines that the last step emitted, and the machine after running them
\* in the frame of the step's function
LastLines == SubSeq(code, last.from, Len(code))
LastFunc == scope_to_data[last.scope].parent_func
AfterLast == Run(InFrame(LastFunc), LastLines, 1)

\* the address of a variable's lowest word in the frame of func_name
AddressOf(var, func_name) ==
    CASE var.local_or_arg = "Local" -> FrameBP(func_name) - 3 - var.offset
      [] var.local_or_arg = "Arg" ->
            FrameBP(func_name) + 2
                + get_type_size(func_to_data[func_name].decl_data.return_type) + var.offset
      [] OTHER -> GlobalsAddress + var.offset

-----------------------------------------------------------------------------
(* Properties of the emitted code.                                         *)

\* the value of an index expression of the programs: a constant or a sum
RECURSIVE ValueOf(_)
ValueOf(e) == IF e.k = "BinaryOp" THEN ValueOf(e.left) + ValueOf(e.right) ELSE e.val

\* sum over j of the value of index j times the product of the dimensions
\* after j
RECURSIVE RowMajor(_, _, _)
RowMajor(indices, dimentions, j) ==
    IF j > Len(indices) THEN 0
    ELSE ValueOf(indices[j]) * Product(SubSeq(dimentions, j + 1, Len(dimentions)))
            + RowMajor(indices, dimentions, j + 1)

\* the last step emitted the address of an indexed array, &arr[i0]..[ik-1]
IndexingEmitted ==
    /\ status = "running"
    /\ last.k = "Expression"
    /\ last.node.exp.k = "UnaryOp"
    /\ last.node.exp.op_type = "REF"
    /\ last.node.exp.expr.k = "NameRef"
    /\ last.node.exp.expr.name.k = "ArrayRef"

IndexedArray ==
    find_variable(scope_to_data, last.node.exp.expr.name.name.name, last.scope).some[1]

\* C7: for a local array of dimensions d0..dk-1 and element size s, the code
\* of indexing with k indices i0..ik-1 leaves in R1 the address
\* base + (sum over j of i_j times the product of the dimensions after j) * s,
\* base being the array's lowest word; for dimensions [2,3] and s = 1 this
\* is base + i0 * 3 + i1; the address lies inside the array's words.
C7_RowMajor ==
    IndexingEmitted =>
        /\ AfterLast.ok
        /\ AfterLast.regs["R1"]
              = AddressOf(IndexedArray, LastFunc)
                  + RowMajor(last.node.exp.expr.name.indices,
                             IndexedArray.var_type.dimentions, 1)
                      * get_type_size(IndexedArray.var_type.type)
        /\ IndexedArray.var_type.dimentions = <<2, 3>>
              /\ get_type_size(IndexedArray.var_type.type) = 1
              => AfterLast.regs["R1"]
                    = AddressOf(IndexedArray, LastFunc)
                        + ValueOf(last.node.exp.expr.name.indices[1]) * 3
                        + ValueOf(last.node.exp.expr.name.indices[2])
        /\ AfterLast.regs["R1"] >= AddressOf(IndexedArray, LastFunc)
        /\ AfterLast.regs["R1"] < AddressOf(IndexedArray, LastFunc) + IndexedArray.size

\* an array of three unequal dimensions and elements of several words,
\* indexed off the origin in two places
C7_Witness ==
    /\ IndexingEmitted
    /\ Len(IndexedArray.var_type.dimentions) = 3
    /\ IndexedArray.var_type.dimentions[2] # IndexedArray.var_type.dimentions[3]
    /\ get_type_size(IndexedArray.var_type.type) > 1
    /\ ValueOf(last.node.exp.expr.name.indices[1]) > 0
    /\ ValueOf(last.node.exp.expr.name.indices[2]) > 0
    /\ last.node.exp.expr.name.indices[3].k = "BinaryOp"

\* the length of the run of POP lines that starts at line i
RECURSIVE PopRun(_)
PopRun(i) == IF i > Len(code) \/ code[i].op # "POP" THEN 0 ELSE 1 + PopRun(i + 1)

Calls == {i \in 1..Len(code) : code[i].op = "CALL"}
Callee(i) == func_to_data[code[i].lbl.name]
PopsInto(reg, i) ==
    Cardinality({j \in (i + 1)..(i + PopRun(i + 1)) : code[j].args = <<reg>>})

\* C8: after every CALL line, the pops that end the call hold exactly one
\* POP R1, the first of them, when the callee's return type has a size of 1
\* or more, and no POP R1 when it has size 0; the other pops drop the
\* arguments, one POP ZR each.
C8_PopAfterCall ==
    \A i \in Calls :
        /\ get_type_size(Callee(i).decl_data.return_type) >= 1
              => PopsInto("R1", i) = 1 /\ code[i + 1] = IR("POP", <<"R1">>)
        /\ get_type_size(Callee(i).decl_data.return_type) = 0
              => PopsInto("R1", i) = 0
        /\ PopsInto("ZR", i) = Len(Callee(i).decl_data.args_types)
        /\ PopRun(i + 1) = PopsInto("R1", i) + PopsInto("ZR", i)

\* a call of a function that returns nothing and takes arguments, and a call
\* of a function that returns a word, its argument being a call
C8_Witness ==
    /\ \E i \in Calls :
          /\ get_type_size(Callee(i).decl_data.return_type) = 0
          /\ Len(Callee(i).decl_data.args_types) >= 2
    /\ \E i \in Calls :
          /\ get_type_size(Callee(i).decl_data.return_type) >= 1
          /\ \E j \in Calls : j < i /\ i - j <= 5

\* the last step emitted ++ or -- on a variable, as a statement
IncDecEmitted ==
    /\ status = "running"
    /\ last.k = "Expression"
    /\ last.node.exp.k = "UnaryOp"
    /\ last.node.exp.op_type \in {"PPX", "MMX", "XPP", "XMM"}
    /\ last.node.exp.expr = EVar(last.node.exp.id[1])

IncDecVar == find_variable(scope_to_data, last.node.exp.id[1], last.scope).some[1]

\* the struct declaration of a struct type
StructDeclOf(t) == CHOOSE sd \in StructDecls : sd.name = t[2]

\* the words of the type a pointer points to
PointeeWords(t) ==
    IF IsStructT(Pointee(t))
    THEN SumOfSizes(StructDeclOf(Pointee(t)).items, Len(StructDeclOf(Pointee(t)).items))
    ELSE 1

\* the change that the operator makes to a variable of the type
StepOf(op_type, t) ==
    (IF op_type \in {"PPX", "XPP"} THEN 1 ELSE -1)
        * (IF IsPtr(t) THEN PointeeWords(t) ELSE 1)

\* C9: ++ and -- on a pointer variable change the stored value by the size
\* of the pointee type, 1 for a one-word type and N for a struct of N words,
\* and on a scalar variable by 1; the post forms leave the old value in R1,
\* the pre forms the new value.
C9_PointerStep ==
    IncDecEmitted =>
        /\ AfterLast.ok
        /\ Read(AfterLast.mem, AddressOf(IncDecVar, LastFunc))
              = Unwritten(AddressOf(IncDecVar, LastFunc))
                  + StepOf(last.node.exp.op_type, IncDecVar.var_type.type)
        /\ AfterLast.regs["R1"]
              = IF last.node.exp.op_type \in {"PPX", "MMX"}
                THEN Read(AfterLast.mem, AddressOf(IncDecVar, LastFunc))
                ELSE Unwritten(AddressOf(IncDecVar, LastFunc))
        /\ AfterLast.regs["SP"] = InFrame(LastFunc).regs["SP"]

\* a post-increment of a pointer to a struct of more than three words
C9_Witness ==
    /\ IncDecEmitted
    /\ last.node.exp.op_type = "XPP"
    /\ IsPtr(IncDecVar.var_type.type)
    /\ IsStructT(Pointee(IncDecVar.var_type.type))
    /\ PointeeWords(IncDecVar.var_type.type) > 3
    /\ AfterLast.regs["R1"] # Read(AfterLast.mem, AddressOf(IncDecVar, LastFunc))

\* the last step emitted p->f = c for a variable p
ArrowStoreEmitted ==
    /\ status = "running"
    /\ last.k = "Assignment"
    /\ last.node.ass.op = ""
    /\ last.node.ass.lvalue.k = "NameRef"
    /\ last.node.ass.lvalue.name.k = "StructRef"
    /\ last.node.ass.lvalue.name.type = "ARROW"
    /\ last.node.ass.lvalue.name.name.k = "ID"

ArrowVar ==
    find_variable(scope_to_data, last.node.ass.lvalue.name.name.name, last.scope).some[1]

\* the place of a field in its struct's declaration
FieldIndex(sd, field) == CHOOSE i \in 1..Len(sd.items) : sd.items[i].name = field

\* the offset k of the assigned field: the sizes of the fields before it
ArrowOffset ==
    SumOfSizes(StructDeclOf(Pointee(ArrowVar.var_type.type)).items,
               FieldIndex(StructDeclOf(Pointee(ArrowVar.var_type.type)),
                          last.node.ass.lvalue.name.field) - 1)

\* the lines that put the address of the variable in R1
AddressLines(var, func_name) ==
    CASE var.local_or_arg = "Local" ->
            <<II("ADD", <<"R1", "BP">>, -(3 + var.offset))>>
      [] var.local_or_arg = "Arg" ->
            <<II("ADD", <<"R1", "BP">>,
                 2 + get_type_size(func_to_data[func_name].decl_data.return_type)
                   + var.offset)>>
      [] OTHER -> <<IL("LEA", <<"R1">>, get_global_label),
                    II("ADD", <<"R1", "R1">>, var.offset)>>

\* the lines between the saved address and the store: the right-hand side
RhsLines ==
    SubSeq(LastLines, Len(AddressLines(ArrowVar, LastFunc)) + 4, Len(LastLines) - 2)

\* C10: the lines of p->f = c, p a pointer to a struct with field f at
\* offset k, are in this order: the address of p, one LOAD R1 R1, the
\* addition of k, the address saved by PUSH R1, the lines of the right-hand
\* side, which store nothing and leave the stack as it was, the address taken
\* back by POP R2, and one store STR R2 R1.
C10_ArrowStore ==
    ArrowStoreEmitted =>
        /\ SubSeq(LastLines, 1, Len(AddressLines(ArrowVar, LastFunc)) + 3)
              = AddressLines(ArrowVar, LastFunc)
                  \o <<IR("LOAD", <<"R1", "R1">>),
                       II("ADD", <<"R1", "R1">>, ArrowOffset),
                       IR("PUSH", <<"R1">>)>>
        /\ SubSeq(LastLines, Len(LastLines) - 1, Len(LastLines))
              = <<IR("POP", <<"R2">>), IR("STR", <<"R2", "R1">>)>>
        /\ RhsLines # <<>>
        /\ RhsLines = right_gen([Self EXCEPT !.code = <<>>],
                                last.node.ass.rvalue, last.scope).code
        /\ \A j \in 1..Len(RhsLines) : RhsLines[j].op # "STR"
        /\ Cardinality({j \in 1..Len(RhsLines) : RhsLines[j].op = "PUSH"})
              = Cardinality({j \in 1..Len(RhsLines) : RhsLines[j].op = "POP"})

\* a store through a pointer argument to a field at an offset of two or more,
\* the right-hand side using both registers
C10_Witness ==
    /\ ArrowStoreEmitted
    /\ ArrowVar.local_or_arg = "Arg"
    /\ ArrowOffset >= 2
    /\ Len(RhsLines) > 1

-----------------------------------------------------------------------------
(* Control flow: break and continue.                                       *)

LoopPrefixes == {"WHILE", "DOWHILE", "FOR"}
\* the first label a loop defines, and the labels break and continue go to
LoopHead(pre) == IF pre = "WHILE" THEN "START" ELSE "COND"
LoopContinue(pre) ==
    CASE pre = "WHILE" -> "START" [] pre = "DOWHILE" -> "COND" [] OTHER -> "NEXT"

DefinedAt(c, lbl) == {j \in 1..Len(c) : c[j].op = "LABEL" /\ c[j].lbl = lbl}

\* the lines that open a loop whose end label is not emitted yet: the loops
\* around the statement being compiled
OpenLoops(c) ==
    {j \in 1..Len(c) :
        /\ c[j].op = "LABEL"
        /\ c[j].lbl.pre \in LoopPrefixes
        /\ c[j].lbl.suf = LoopHead(c[j].lbl.pre)
        /\ DefinedAt(c, [c[j].lbl EXCEPT !.suf = "END"]) = {}}

\* the label of the nearest loop around the statement being compiled
NearestLoop(c) == c[CHOOSE j \in OpenLoops(c) : \A h \in OpenLoops(c) : h <= j].lbl

JumpCompiled == last.k \in {"Break", "Continue"}

\* C11: a break or continue with no loop around it aborts the compilation:
\* find_break_continue_labels walks the parent chain of its scope up to the
\* global scope, every scope on the way existing and none carrying a label
\* pair, and returns no pair; no JUMP is emitted for the statement.
C11_NoLoopRejected ==
    (JumpCompiled /\ OpenLoops(code) = {}) =>
        /\ status = "panic"
        /\ LastLines = <<>>
        /\ find_break_continue_labels(scope_to_data, last.scope)
              = [panic |-> FALSE, some |-> <<>>]

\* a continue in an if block of the function body, outside every loop
C11_Witness ==
    /\ JumpCompiled
    /\ last.node.k = "Continue"
    /\ last.scope = CodeLoc(2, 1)
    /\ OpenLoops(code) = {}
    /\ status = "panic"

-----------------------------------------------------------------------------
(* Functions: registration, arguments, calls and returns.                  *)

\* the externals that code_gen has gone through
Processed ==
    IF status = "start" THEN 0
    ELSE Len(prog) - Cardinality({i \in 1..Len(work) : work[i].k = "ext"})

\* the prototypes and definitions of func_name gone through so far
Registrations(func_name) ==
    {i \in 1..Processed : /\ prog[i].k \in {"FuncDecl", "FuncDef"}
                          /\ prog[i].decl.name = func_name}
Definitions(func_name) == {i \in Registrations(func_name) : prog[i].k = "FuncDef"}

Lowest(S) == CHOOSE i \in S : \A j \in S : i <= j
Highest(S) == CHOOSE i \in S : \A j \in S : j <= i

\* the FuncDeclData that a prototype or a definition states
DeclDataOf(ext) ==
    [args_types |-> [i \in 1..Len(ext.decl.args) |-> VariableType_from(ext.decl.args[i])],
     return_type |-> ext.decl.ret_type]

\* C13 as stated: a function's FuncDeclData is the one stored by the first
\* prototype or definition of its name, whatever follows.
C13_AsStated ==
    \A func_name \in DOMAIN func_to_data :
        Registrations(func_name) # {} =>
            func_to_data[func_name].decl_data
                = DeclDataOf(prog[Lowest(Registrations(func_name))])

\* C13: a prototype that follows the definition of its name changes nothing,
\* and the definition's body data is kept; a definition always stores its own
\* signature, replacing a prototype's, and a prototype that follows a
\* prototype replaces it.  The FuncDeclData of a name is the definition's once
\* the definition is compiled, and the latest prototype's before that.
C13_DefinitionOrLatestPrototype ==
    \A func_name \in DOMAIN func_to_data :
        Registrations(func_name) # {} =>
            /\ func_to_data[func_name].decl_data
                  = DeclDataOf(prog[IF Definitions(func_name) # {}
                                    THEN Highest(Definitions(func_name))
                                    ELSE Highest(Registrations(func_name))])
            /\ (func_to_data[func_name].body_data # <<>>) = (Definitions(func_name) # {})

\* the definition of f has replaced the argument types of the prototype
\* int f(); that came before it
C13_Witness ==
    /\ Cardinality(Registrations("f")) = 2
    /\ Definitions("f") = {Highest(Registrations("f"))}
    /\ func_to_data["f"].decl_data # DeclDataOf(prog[Lowest(Registrations("f"))])

\* the labels that the lines c define
DefinedLabels(c) ==
    {c[j].lbl : j \in {h \in 1..Len(c) : c[h].op \in {"LABEL", ".block", ".stringz"}}}

\* a label of the output as a Compiler with program index i writes it: the
\* index is formatted into the label by get_tmp_label and get_global_label
\* and read nowhere else
WithIndex(lbl, i) == IF lbl.idx = -1 THEN lbl ELSE [lbl EXCEPT !.idx = i]

\* C14 as stated: no label that the output of this Compiler defines is
\* defined by the output of a Compiler with another program index for a
\* program with the same function names, every defined label holding the
\* program index.
C14_AsStated ==
    /\ DefinedLabels(code)
          \cap {WithIndex(lbl, program_index + 1) : lbl \in DefinedLabels(code)} = {}
    /\ \A lbl \in DefinedLabels(code) : lbl.idx = program_index

\* the definition of a function whose body is registered
DefinitionOf(func_name) == prog[Highest(Definitions(func_name))]
OneWordArgs(func_name) ==
    \A i \in 1..Len(DefinitionOf(func_name).decl.args) :
        get_decl_size(DefinitionOf(func_name).decl.args[i]) = 1
ArgVar(func_name, i) ==
    scope_to_data[ScopeOf(func_name)].variables[DefinitionOf(func_name).decl.args[i].name]

\* C15: in a function whose arguments are all one word, the i-th argument,
\* counted from 0, is recorded with offset i and the Arg storage class,
\* however many words the locals of the body take, and the recorded argument
\* types are those of the arguments in declaration order.
C15_ArgumentCursor ==
    \A func_name \in Registered :
        OneWordArgs(func_name) =>
            /\ \A i \in 1..Len(DefinitionOf(func_name).decl.args) :
                    /\ ArgVar(func_name, i).offset = i - 1
                    /\ ArgVar(func_name, i).local_or_arg = "Arg"
                    /\ ArgVar(func_name, i).size = 1
            /\ func_to_data[func_name].decl_data.args_types
                  = [i \in 1..Len(DefinitionOf(func_name).decl.args) |->
                        VariableType_from(DefinitionOf(func_name).decl.args[i])]

\* a function of two or more one-word arguments whose locals take three
\* words or more
C15_Witness ==
    \E func_name \in Registered :
        /\ OneWordArgs(func_name)
        /\ Len(DefinitionOf(func_name).decl.args) >= 2
        /\ func_to_data[func_name].body_data[1].local_vars_size >= 3
        /\ ArgVar(func_name, 2).offset = 1

\* the last step compiled a call statement of a defined function, its
\* arguments constants
CallCompiled ==
    /\ status = "running"
    /\ last.k = "Expression"
    /\ last.node.exp.k = "FuncCall"
    /\ last.node.exp.name \in Registered
    /\ \A i \in 1..Len(last.node.exp.args) :
           last.node.exp.args[i].k = "Constant" /\ last.node.exp.args[i].type = TInt

CalledFunc == last.node.exp.name
CallLine == Lowest({j \in 1..Len(LastLines) : LastLines[j].op = "CALL"})

\* the machine when CALL is reached: the arguments and the return value's
\* words are pushed
BeforeCall == Run(InFrame(LastFunc), SubSeq(LastLines, 1, CallLine - 1), 1)

\* the callee's machine after CALL: the return address and the caller's BP
\* are pushed below the words of the caller, and BP = SP + 1
InCallee ==
    [BeforeCall EXCEPT !.regs["BP"] = BeforeCall.regs["SP"] - 1,
                       !.regs["SP"] = BeforeCall.regs["SP"] - 2]

\* the address that the callee's code computes for its i-th parameter
ParamAddress(i) ==
    Run(InCallee,
        codegen_load_addr_of_var([Self EXCEPT !.code = <<>>],
                                 DefinitionOf(CalledFunc).decl.args[i].name,
                                 ScopeOf(CalledFunc)).code,
        1).regs["R1"]

\* C16 as stated: for every call, the word pushed for the i-th argument is
\* at the address the callee computes for its i-th parameter, BP + 2 + the
\* return value's size + the parameter's offset, and as many words are
\* dropped after the call as were pushed for the arguments.
C16_AsStated ==
    CallCompiled =>
        /\ BeforeCall.ok
        /\ \A i \in 1..Len(last.node.exp.args) :
               /\ ParamAddress(i)
                     = InCallee.regs["BP"] + 2
                         + get_type_size(func_to_data[CalledFunc].decl_data.return_type)
                         + ArgVar(CalledFunc, i).offset
               /\ Read(InCallee.mem, ParamAddress(i)) = last.node.exp.args[i].val
        /\ Cardinality({j \in (CallLine + 1)..Len(LastLines) :
                           LastLines[j] = IR("POP", <<"ZR">>)})
              = Cardinality({j \in 1..(CallLine - 1) : LastLines[j] = IR("PUSH", <<"R1">>)})

\* the function whose body is being compiled: the one whose teardown is
\* pending
CurrentFunc ==
    work[Lowest({i \in 1..Len(work) : work[i].k = "funcend"})].node.decl.name

ReturnCompiled == status = "running" /\ last.k = "Return"
FuncCompiled == status = "running" /\ last.k = "FuncDefEnd"

\* the lines of a function: its entry label, its end label, its last line
EntryLine(func_name) == Lowest(DefinedAt(code, FuncLabel(func_name)))
EndLine(func_name) == Lowest(DefinedAt(code, FuncEndLabel(func_name)))
ReturnJumps(func_name) ==
    {j \in 1..Len(code) : code[j] = IL("JUMP", <<>>, FuncEndLabel(func_name))}
SavedRegs(func_name) == func_to_data[func_name].body_data[1].regs_used
LocalWords(func_name) == func_to_data[func_name].body_data[1].local_vars_size

\* C17: every return statement of a function f, in whatever block, ends
\* with JUMP _f_END, after ADD R2 BP 2 and STR R2 R1 when it has a value and
\* alone when it has none; the code of f has one end label _f_END and one
\* RET, its last line; the prologue after the entry label pushes the saved
\* registers and one word per local word, and the lines between the end
\* label and RET pop as many local words and then the saved registers in
\* the reverse order of their pushes.
C17_SingleExit ==
    /\ ReturnCompiled =>
          /\ LastLines # <<>>
          /\ LastLines[Len(LastLines)] = IL("JUMP", <<>>, FuncEndLabel(CurrentFunc))
          /\ last.node.expr = <<>> => Len(LastLines) = 1
          /\ last.node.expr # <<>> =>
                /\ Len(LastLines) >= 4
                /\ SubSeq(LastLines, Len(LastLines) - 2, Len(LastLines) - 1)
                      = <<II("ADD", <<"R2", "BP">>, 2), IR("STR", <<"R2", "R1">>)>>
                /\ SubSeq(LastLines, 1, Len(LastLines) - 3)
                      = right_gen([Self EXCEPT !.code = <<>>], last.node.expr[1],
                                  last.scope).code
    /\ FuncCompiled =>
          LET func_name == last.node.decl.name IN
          /\ Cardinality(DefinedAt(code, FuncLabel(func_name))) = 1
          /\ Cardinality(DefinedAt(code, FuncEndLabel(func_name))) = 1
          /\ {j \in EntryLine(func_name)..Len(code) : code[j].op = "RET"} = {Len(code)}
          /\ \A j \in ReturnJumps(func_name) :
                 EntryLine(func_name) < j /\ j < EndLine(func_name)
          /\ SubSeq(code, EntryLine(func_name) + 1,
                    EntryLine(func_name) + Len(SavedRegs(func_name))
                        + LocalWords(func_name))
                = [i \in 1..Len(SavedRegs(func_name)) |->
                      IR("PUSH", <<SavedRegs(func_name)[i]>>)]
                  \o [i \in 1..LocalWords(func_name) |-> IR("PUSH", <<"ZR">>)]
          /\ SubSeq(code, EndLine(func_name) + 1, Len(code))
                = [i \in 1..LocalWords(func_name) |-> IR("POP", <<"ZR">>)]
                  \o [i \in 1..Len(SavedRegs(func_name)) |->
                        IR("POP", <<SavedRegs(func_name)[Len(SavedRegs(func_name)) + 1 - i]>>)]
                  \o <<IR("RET", <<>>)>>

\* a function compiled to its end with a return inside a loop's if block and
\* a return at the end of its body, two saved registers and a local
C17_Witness ==
    /\ FuncCompiled
    /\ Cardinality(ReturnJumps(last.node.decl.name)) >= 2
    /\ Len(SavedRegs(last.node.decl.name)) >= 2
    /\ LocalWords(last.node.decl.name) >= 1
    /\ OpenLoops(SubSeq(code, 1, Lowest(ReturnJumps(last.node.decl.name)))) # {}

-----------------------------------------------------------------------------
(* Names read as values.                                                   *)

\* the last step compiled a statement that reads a name as a value
NameRead ==
    /\ status = "running"
    /\ last.k = "Expression"
    /\ last.node.exp.k = "NameRef"

\* the static type of the name read: an identifier's declared type, a
\* struct field's declared type, and for an indexed array the element's
\* type when every dimension is indexed
StaticArray(name, scope) ==
    IF name.k = "ArrayRef"
    THEN Len(name.indices)
            < Len(get_type_of_name(scope_to_data, name.name, scope).vt.dimentions)
    ELSE get_type_of_name(scope_to_data, name, scope).vt.kind = "Array"

\* C18 as stated: a name read as a value emits the lines of its address,
\* followed by nothing when its static type is an array and by one
\* LOAD R1 R1 when it is not, be the name an identifier, an indexed array
\* or a struct field.
C18_AsStated ==
    NameRead =>
        LastLines
            = codegen_name([Self EXCEPT !.code = <<>>], last.node.exp.name, last.scope).code
              \o (IF StaticArray(last.node.exp.name, last.scope) THEN <<>>
                  ELSE <<IR("LOAD", <<"R1", "R1">>)>>)

-----------------------------------------------------------------------------
(* Temporary labels and string constants.                                  *)

TmpPrefixes == {"IF", "WHILE", "DOWHILE", "FOR", "TERNARY", "STR"}

\* the suffixes of the labels that one construct defines
Suffixes(pre) ==
    CASE pre = "IF" -> {"ELSE", "END"}
      [] pre = "WHILE" -> {"START", "END"}
      [] pre = "DOWHILE" -> {"COND", "BODY", "END"}
      [] pre = "FOR" -> {"COND", "END", "NEXT"}
      [] pre = "TERNARY" -> {"NO", "YES"}
      [] OTHER -> {""}

DefinitionLines == {j \in 1..Len(code) : code[j].op \in {"LABEL", ".block", ".stringz"}}
TmpLabels == {lbl \in DefinedLabels(code) : lbl.pre \in TmpPrefixes}

\* C19: no label is defined by two lines of the output; every temporary
\* label holds a counter value below the current one, the labels that hold
\* one counter value are labels of one construct, and when the compilation is
\* over every counter value below the current one is held by all the labels
\* of one construct; the counter never decreases.
C19_FreshLabels ==
    /\ [](/\ \A i \in DefinitionLines : \A j \in DefinitionLines :
                 code[i].lbl = code[j].lbl => i = j
          /\ \A lbl \in TmpLabels :
                 /\ 0 <= lbl.n /\ lbl.n < cur_tmp_label
                 /\ lbl.suf \in Suffixes(lbl.pre)
          /\ \A a \in TmpLabels : \A b \in TmpLabels : a.n = b.n => a.pre = b.pre
          /\ status = "done" =>
                \A n \in 0..(cur_tmp_label - 1) :
                    \E pre \in TmpPrefixes :
                        {lbl \in TmpLabels : lbl.n = n}
                            = {get_tmp_label(pre, n, suf) : suf \in Suffixes(pre)})
    /\ [][cur_tmp_label' >= cur_tmp_label]_vars

\* a finished compilation of if, while, do-while and for statements, a
\* ternary and string constants
C19_Witness ==
    /\ status = "done"
    /\ {lbl.pre : lbl \in TmpLabels} = TmpPrefixes
    /\ cur_tmp_label >= 8

StringLines == {j \in 1..Len(code) : code[j].op = ".stringz"}

\* the last step compiled a statement that is a string constant
StringCompiled ==
    /\ status = "running"
    /\ last.k = "Expression"
    /\ last.node.exp.k = "Constant"
    /\ last.node.exp.type = TString

\* the line that declares the content s
StringLine(s) == CHOOSE j \in StringLines : code[j].args[2] = s

\* C20: a content has one .stringz line at most, and one as soon as it is
\* compiled; two .stringz lines differ in content and in label; every LEA of
\* a string label follows the line that declares the label; a string
\* constant ends with LEA R1 of the label of its content's line, which the
\* constant itself emits when and only when no earlier line declares the
\* content.
C20_StringsInterned ==
    /\ \A i \in StringLines : \A j \in StringLines :
           (code[i].args[2] = code[j].args[2] \/ code[i].lbl = code[j].lbl) => i = j
    /\ DOMAIN data_val_to_label = {code[j].args[2] : j \in StringLines}
    /\ \A j \in StringLines : data_val_to_label[code[j].args[2]] = code[j].lbl
    /\ \A i \in 1..Len(code) :
           (code[i].op = "LEA" /\ code[i].lbl.pre = "STR") =>
               \E j \in StringLines : j < i /\ code[j].lbl = code[i].lbl
    /\ StringCompiled =>
          /\ \E j \in StringLines : code[j].args[2] = last.node.exp.text
          /\ LastLines[Len(LastLines)]
                = IL("LEA", <<"R1">>, code[StringLine(last.node.exp.text)].lbl)
          /\ LastLines
                = (IF StringLine(last.node.exp.text) >= last.from
                   THEN <<code[StringLine(last.node.exp.text)]>> ELSE <<>>)
                  \o <<IL("LEA", <<"R1">>, code[StringLine(last.node.exp.text)].lbl)>>

\* a string constant whose content an earlier constant declared
C20_Witness ==
    /\ StringCompiled
    /\ Len(LastLines) = 1
    /\ StringLine(last.node.exp.text) < last.from

-----------------------------------------------------------------------------
(* Comparisons and logical operators.                                      *)

\* the last step compiled a statement that compares two constants
ComparisonCompiled ==
    /\ status = "running"
    /\ last.k = "Expression"
    /\ last.node.exp.k = "BinaryOp"
    /\ last.node.exp.op_type \in BooleanOps
    /\ last.node.exp.left.k = "Constant"
    /\ last.node.exp.right.k = "Constant"

\* the relation of C between the values x and y
Holds(op_type, x, y) ==
    CASE op_type = "EQ" -> x = y
      [] op_type = "NEQ" -> x # y
      [] op_type = "LT" -> x < y
      [] op_type = "LTEQ" -> x <= y
      [] op_type = "GT" -> x > y
      [] op_type = "GTEQ" -> x >= y
      [] op_type = "LogicalAnd" -> x # 0 /\ y # 0
      [] OTHER -> x # 0 \/ y # 0

\* C21: the lines of left op right, op one of ==, !=, <, <=, >, >=, && and
\* ||, run to their end and leave in R1 the value 1 when the relation holds
\* between the value of left and the value of right, and 0 when it does not.
C21_BooleanResult ==
    ComparisonCompiled =>
        /\ AfterLast.ok
        /\ AfterLast.regs["R1"]
              = IF Holds(last.node.exp.op_type, last.node.exp.left.val,
                         last.node.exp.right.val) THEN 1 ELSE 0
        /\ AfterLast.regs["SP"] = InFrame(LastFunc).regs["SP"]

\* 1 <= 2 compiled: the test of greater-than negated
C21_Witness ==
    /\ ComparisonCompiled
    /\ last.node.exp.op_type = "LTEQ"
    /\ last.node.exp.left.val < last.node.exp.right.val
    /\ AfterLast.regs["R1"] = 1

-----------------------------------------------------------------------------
(* The next label of a for loop.                                           *)

JumpsTo(c, lbl) == {j \in 1..Len(c) : c[j].op = "JUMP" /\ c[j].lbl = lbl}

ForLabel(n, suf) == get_tmp_label("FOR", n, suf)

\* the for loops whose condition label is emitted, and those emitted whole
ForLoops(c) ==
    {c[j].lbl.n : j \in {h \in 1..Len(c) : /\ c[h].op = "LABEL"
                                            /\ c[h].lbl.pre = "FOR"
                                            /\ c[h].lbl.suf = "COND"}}
ClosedForLoops(c) == {n \in ForLoops(c) : DefinedAt(c, ForLabel(n, "END")) # {}}

\* C22: FOR_n_NEXT is defined exactly once in a for loop, after the lines of
\* the body and before the one JUMP FOR_n_COND that closes the loop, also
\* when the loop has no next clause; a continue whose nearest loop is that
\* for loop is a JUMP to FOR_n_NEXT, emitted between the condition label and
\* the definition of FOR_n_NEXT.
C22_ForNextLabel ==
    /\ \A n \in ClosedForLoops(code) :
          \E c \in DefinedAt(code, ForLabel(n, "COND")),
             p \in DefinedAt(code, ForLabel(n, "NEXT")),
             e \in DefinedAt(code, ForLabel(n, "END")) :
                /\ DefinedAt(code, ForLabel(n, "NEXT")) = {p}
                /\ c < p /\ p < e
                /\ JumpsTo(code, ForLabel(n, "COND")) = {e - 1}
                /\ \A j \in JumpsTo(code, ForLabel(n, "NEXT")) : c < j /\ j < p
    /\ \A n \in ForLoops(code) \ ClosedForLoops(code) :
          /\ Cardinality(DefinedAt(code, ForLabel(n, "NEXT"))) <= 1
          /\ \A j \in JumpsTo(code, ForLabel(n, "NEXT")) :
                \A p \in DefinedAt(code, ForLabel(n, "NEXT")) : j < p
    /\ (status = "running" /\ last.k = "Continue" /\ NearestLoop(code).pre = "FOR") =>
          /\ LastLines = <<IL("JUMP", <<>>, [NearestLoop(code) EXCEPT !.suf = "NEXT"])>>
          /\ DefinedAt(code, [NearestLoop(code) EXCEPT !.suf = "NEXT"]) = {}

\* a for loop without a next clause, emitted whole, with a continue in it:
\* its next label is the line before the jump back
C22_Witness ==
    \E n \in ClosedForLoops(code) :
        \E p \in DefinedAt(code, ForLabel(n, "NEXT")) :
            /\ code[p + 1] = IL("JUMP", <<>>, ForLabel(n, "COND"))
            /\ JumpsTo(code, ForLabel(n, "NEXT")) # {}

-----------------------------------------------------------------------------
(* Declarations with an initializer.                                       *)

\* the last step compiled a declaration with an initializer
InitializedDeclCompiled == status = "running" /\ last.k = "Decl" /\ last.node.decl.hasInit

\* the names an expression of the programs' initializers refers to
RECURSIVE NamesIn(_)
NamesIn(e) ==
    CASE e.k = "NameRef" /\ e.name.k = "ID" -> {e.name.name}
      [] e.k = "BinaryOp" -> NamesIn(e.left) \cup NamesIn(e.right)
      [] OTHER -> {}

InitializerNames(decl) == UNION {NamesIn(decl.init[j]) : j \in 1..Len(decl.init)}

\* the variable of the enclosing scopes that a name of scope would resolve to
\* were it not declared in scope
OuterVariable(var_name, scope) ==
    find_variable(scope_to_data, var_name, scope_to_data[scope].parent_scope)

\* the line that loads the address of the local that scope itself records
\* for var_name
OwnAddressLines(var_name, scope) ==
    <<II("ADD", <<"R1", "BP">>,
         -(1 + Len(func_to_data[scope_to_data[scope].parent_func].body_data[1].regs_used)
             + scope_to_data[scope].variables[var_name].offset))>>

-----------------------------------------------------------------------------
(* The variables of a for loop's initializer.                              *)

\* the for loops among the statements of the function bodies
TopLevelFors ==
    {st \in UNION {{prog[i].body.items[j] : j \in 1..Len(prog[i].body.items)} :
                    i \in {h \in 1..Len(prog) : prog[h].k = "FuncDef"}} :
        st.k = "ForLoop" /\ st.init # <<>> /\ st.code_loc \in DOMAIN scope_to_data}

DeclsOf(items) == {items[j].decl : j \in {h \in 1..Len(items) : items[h].k = "Decl"}}

\* the last step compiled &x in the scope of the for loop fl
AddressTaken(fl, x) ==
    /\ status = "running"
    /\ last.k = "Expression"
    /\ last.scope = fl.code_loc
    /\ last.node.exp = EUn("REF", EVar(x), <<>>)

\* C24: a variable of a for loop's initializer is recorded in the scope of
\* the loop's body with the type, the size and the slot of the initializer's
\* declaration, a slot below every slot of the body, also when the body
\* declares the same name at its top level; the scope holds one entry for
\* the name, and a reference to the name in the body is compiled to the
\* address of that entry.
C24_ForInitEntryWins ==
    \A fl \in TopLevelFors :
        \A d \in DeclsOf(fl.init[1].items) :
            LET variables == scope_to_data[fl.code_loc].variables IN
            /\ d.name \in DOMAIN variables
            /\ variables[d.name]
                  = variable_data_from_decl(d, "Local",
                        variables[d.name].offset - get_decl_size(d) + 1)
            /\ \A b \in DeclsOf(fl.body.items) :
                  b.name \notin {i.name : i \in DeclsOf(fl.init[1].items)}
                      => variables[b.name].offset > variables[d.name].offset
            /\ DOMAIN variables
                  = {i.name : i \in DeclsOf(fl.init[1].items) \cup DeclsOf(fl.body.items)}
            /\ AddressTaken(fl, d.name) =>
                  LastLines = OwnAddressLines(d.name, fl.code_loc)

\* &v compiled in the body of for (int v = v;;) after the body's own
\* declaration of a v of another size
C24_Witness ==
    \E fl \in TopLevelFors :
        \E d \in DeclsOf(fl.init[1].items), b \in DeclsOf(fl.body.items) :
            /\ b.name = d.name
            /\ get_decl_size(b) # get_decl_size(d)
            /\ AddressTaken(fl, d.name)

-----------------------------------------------------------------------------
(* The chain of scopes.                                                    *)

\* following parent_scope from scope reaches _GLOBAL within fuel steps, every
\* scope on the way registered
RECURSIVE ReachesGlobal(_, _)
ReachesGlobal(scope, fuel) ==
    /\ scope \in DOMAIN scope_to_data
    /\ \/ scope = GLOBAL
       \/ fuel > 0 /\ ReachesGlobal(scope_to_data[scope].parent_scope, fuel - 1)

\* the number of parent_scope links from scope to _GLOBAL
RECURSIVE Depth(_, _)
Depth(scope, fuel) ==
    IF scope = GLOBAL \/ fuel = 0 \/ scope \notin DOMAIN scope_to_data THEN 0
    ELSE 1 + Depth(scope_to_data[scope].parent_scope, fuel - 1)

\* the scopes that code is, or is still to be, generated in
EmissionScopes ==
    {work[i].scope : i \in {h \in 1..Len(work) : work[h].k \in {"stmt", "forcond"}}}
        \cup (IF last.k \in {"none", "Root"} THEN {} ELSE {last.scope})

\* the names of the programs' variables
VariableNames ==
    UNION {DOMAIN scope_to_data[s].variables : s \in DOMAIN scope_to_data}

\* C25: once the root is compiled, the parent_scope links of every registered
\* scope lead to _GLOBAL in fewer steps than there are scopes, _GLOBAL being
\* the only scope that is its own parent; every scope that a statement is
\* compiled in is registered before the statement is reached; and on every
\* such scope find_variable and find_break_continue_labels return a result,
\* found or not found, without a missing scope on the way.
C25_ScopeChain ==
    (scope_to_data # <<>>) =>
        /\ GLOBAL \in DOMAIN scope_to_data
        /\ \A s \in DOMAIN scope_to_data :
              /\ ReachesGlobal(s, Cardinality(DOMAIN scope_to_data) - 1)
              /\ (scope_to_data[s].parent_scope = s) <=> (s = GLOBAL)
        /\ \A s \in EmissionScopes :
              /\ s \in DOMAIN scope_to_data
              /\ ~find_break_continue_labels(scope_to_data, s).panic
              /\ \A x \in VariableNames : ~find_variable(scope_to_data, x, s).panic

\* a break or continue compiled three blocks below its function's scope,
\* in a block without labels of its own
C25_Witness ==
    /\ status = "running"
    /\ JumpCompiled
    /\ Depth(last.scope, Cardinality(DOMAIN scope_to_data)) >= 4
    /\ scope_to_data[last.scope].break_label = <<>>
    /\ find_break_continue_labels(scope_to_data, last.scope).some # <<>>

-----------------------------------------------------------------------------
(* The stack across an expression.                                         *)

\* the number of lines of an instruction among lines
Count(lines, op) == Cardinality({j \in 1..Len(lines) : lines[j].op = op})

\* the last step compiled an expression statement: the lines of right_gen
ExpressionCompiled == status = "running" /\ last.k = "Expression"

\* the functions called in an expression
RECURSIVE CalledIn(_)
CalledIn(e) ==
    CASE e.k = "FuncCall" ->
            {e.name} \cup UNION {CalledIn(e.args[j]) : j \in 1..Len(e.args)}
      [] e.k = "BinaryOp" -> CalledIn(e.left) \cup CalledIn(e.right)
      [] e.k = "UnaryOp" -> CalledIn(e.expr)
      [] OTHER -> {}

\* C26 as stated: the lines of an expression in value mode push as many
\* words as they pop, whatever the return type of the functions called.
C26_AsStated ==
    ExpressionCompiled => Count(LastLines, "PUSH") = Count(LastLines, "POP")

-----------------------------------------------------------------------------
(* The global variables.                                                   *)

\* the global variables once the root is compiled, and the size of the block
\* reserved for them, the first line of the code
Globals == scope_to_data[GLOBAL].variables
BlockSize == code[1].n

\* the words of memory the code reaches for a global variable: from the
\* block's label plus its offset upwards, size words
GlobalWords(v) == AddressOf(v, "main")..(AddressOf(v, "main") + v.size - 1)

\* C27 as stated: the words reached for every global variable lie in the
\* block reserved at the global label, whose size is the sum of the sizes of
\* the globals, and the words of two globals are disjoint.
C27_AsStated ==
    (status # "panic" /\ GLOBAL \in DOMAIN scope_to_data) =>
        \A x \in DOMAIN Globals :
            /\ GlobalWords(Globals[x])
                  \subseteq GlobalsAddress..(GlobalsAddress + BlockSize - 1)
            /\ \A y \in DOMAIN Globals \ {x} :
                  GlobalWords(Globals[x]) \cap GlobalWords(Globals[y]) = {}

\* the global variables of the program whose type is a struct declared
\* earlier in the program
StructGlobals ==
    {i \in 1..Len(prog) :
        /\ prog[i].k = "VarDecl"
        /\ prog[i].decl.k = "VarDecl"
        /\ \E j \in 1..(i - 1) :
              prog[j].k = "StructDecl" /\ prog[i].decl.type = TStruct(prog[j].name)}

\* the size of a struct of the program once it is registered
StructSize(type) == struct_to_data[type[2]].size

\* C29 as stated: a program with a global variable of a struct type declared
\* earlier compiles without an abort at the root; the variable is registered
\* with the size of the struct, and the block's size includes it.
C29_AsStated ==
    (StructGlobals # {} /\ status # "start") =>
        /\ status # "panic"
        /\ \A i \in StructGlobals :
              /\ prog[i].decl.name \in DOMAIN Globals
              /\ prog[i].decl.type[2] \in DOMAIN struct_to_data =>
                    /\ Globals[prog[i].decl.name].size = StructSize(prog[i].decl.type)
                    /\ BlockSize >= StructSize(prog[i].decl.type)

-----------------------------------------------------------------------------
(* The local variables in the frame.                                       *)

\* the sum of the sizes of the declarations in a list of statements: its own,
\* those of the blocks nested in it and those of for loops' initializers
RECURSIVE DeclaredWords(_, _)
RECURSIVE BlocksWords(_, _)
DeclaredWords(items, i) ==
    IF i > Len(items) THEN 0
    ELSE (IF items[i].k = "Decl" THEN get_decl_size(items[i].decl) ELSE 0)
         + (IF items[i].k = "ForLoop" /\ items[i].init # <<>>
            THEN DeclaredWords(items[i].init[1].items, 1) ELSE 0)
         + BlocksWords(StatementBlocks(items[i]), 1)
         + DeclaredWords(items, i + 1)
BlocksWords(blocks, j) ==
    IF j > Len(blocks) THEN 0
    ELSE DeclaredWords(blocks[j].items, 1) + BlocksWords(blocks, j + 1)

\* the address that the lines of codegen_load_addr_of_var leave in R1 for the
\* variable p = <<scope, name>> of func_name, once the name is declared
LocalAddress(p, func_name) ==
    Run(InFrame(func_name),
        codegen_load_addr_of_var(
            [Self EXCEPT !.code = <<>>,
                         !.scopes[p[1]].declared_variables = @ \cup {p[2]}],
            p[2], p[1]).code, 1).regs["R1"]

\* the words that the prologue of func_name pushes for the local variables,
\* directly below the saved registers
LocalSlots(func_name) ==
    (FrameBP(func_name) - Len(func_to_data[func_name].body_data[1].regs_used)
        - func_to_data[func_name].body_data[1].local_vars_size)
    ..(FrameBP(func_name) - Len(func_to_data[func_name].body_data[1].regs_used) - 1)

\* C28: for every local variable of a registered function the address its
\* lines compute is BP - (1 + number of saved registers + offset), and that
\* word and the size - 1 words above it lie in the local_vars_size words
\* pushed directly below the saved registers, so below the saved registers,
\* the saved BP, the return address, the return value and the arguments;
\* local_vars_size is the sum of the sizes of all local declarations of the
\* function.
C28_LocalsInFrame ==
    \A fd \in FuncDefs : fd.decl.name \in Registered =>
        /\ func_to_data[fd.decl.name].body_data[1].local_vars_size
              = DeclaredWords(fd.body.items, 1)
        /\ \A p \in FuncVars(fd.decl.name) :
              VarOf(p).local_or_arg = "Local" =>
                  /\ LocalAddress(p, fd.decl.name)
                        = FrameBP(fd.decl.name)
                            - (1 + Len(func_to_data[fd.decl.name].body_data[1].regs_used)
                                 + VarOf(p).offset)
                  /\ LocalAddress(p, fd.decl.name)
                        ..(LocalAddress(p, fd.decl.name) + VarOf(p).size - 1)
                        \subseteq LocalSlots(fd.decl.name)

\* a function whose first local is an array: its last word is the word
\* directly below the saved registers, its address lies size - 1 words lower
C28_Witness ==
    \E fd \in FuncDefs :
        /\ fd.decl.name \in Registered
        /\ \E p \in FuncVars(fd.decl.name) :
              /\ VarOf(p).local_or_arg = "Local"
              /\ VarOf(p).var_type.kind = "Array"
              /\ VarOf(p).size > 1
              /\ LocalAddress(p, fd.decl.name) + VarOf(p).size - 1
                    = FrameBP(fd.decl.name)
                        - Len(func_to_data[fd.decl.name].body_data[1].regs_used) - 1

-----------------------------------------------------------------------------
(* The address of a dereference.                                           *)

\* the last step compiled &*e: the lines of left_gen for *e
DerefAddressCompiled ==
    /\ status = "running"
    /\ last.k = "Expression"
    /\ last.node.exp.k = "UnaryOp" /\ last.node.exp.op_type = "REF"
    /\ last.node.exp.expr.k = "UnaryOp" /\ last.node.exp.expr.op_type = "DEREF"

\* the operand e of the dereference, and the machine after the lines that
\* right_gen emits for e
DerefOperandOf(node) == node.exp.expr.expr
AfterValueOf(e) ==
    Run(InFrame(LastFunc), right_gen([Self EXCEPT !.code = <<>>], e, last.scope).code, 1)

\* C30 as stated: the lines of *e in address mode leave in R1 what the lines
\* of e in value mode leave there, for e a name or a dereference, a name of
\* an array included.
C30_AsStated ==
    DerefAddressCompiled =>
        /\ AfterLast.ok
        /\ AfterValueOf(DerefOperandOf(last.node)).ok
        /\ AfterLast.regs["R1"] = AfterValueOf(DerefOperandOf(last.node)).regs["R1"]

====
